---------------------------- MODULE Spec2Model ----------------------------
(***************************************************************************)
(* A model of the signal-analysis core of waves-lab: the FourierAnalyzer   *)
(* (FFT/IFFT, windowing, one-sided spectrum, harmonic search and the three *)
(* spectral filters), and the WaveEngine (the wave collection and its      *)
(* readers).                                                               *)
(*                                                                         *)
(* Arithmetic.  The code computes in IEEE doubles.  The model computes in  *)
(* exact rational arithmetic: a double is a fraction n/d in lowest terms,  *)
(* and d = 0 stands for a non-finite double (0/0 is NaN).  Rounding error  *)
(* is therefore not modelled; every trigonometric value the bounded model  *)
(* evaluates (signal lengths 0..4) is rational, and an angle whose cosine  *)
(* or sine is irrational is refused rather than approximated.              *)
(***************************************************************************)
EXTENDS Integers, Sequences, FiniteSets, TLC

VARIABLES
    pc,           \* the call that has been made: "start" before any call
    signal,       \* std::vector<double>: the real input signal
    sampleRate,   \* double sampleRate of getSpectrum and of the filters
    spectrumArg,  \* std::vector<Complex>: the argument of ifft
    ret,          \* the sequence fft, ifft or a filter returned
    filt,         \* what the filter's zeroing loop did to the spectrum
    analysis,     \* the FrequencySpectrum getSpectrum returned
    harmonics,    \* the std::vector<Harmonic> findHarmonics returned
    arg,          \* the remaining arguments of the call that has been made
    waves,        \* WaveEngine::waves_: the waves the engine owns, in order
    out,          \* what a WaveEngine member or a utility returned
    window        \* the MainWindow: its widgets' values and its members

vars == <<pc, signal, sampleRate, spectrumArg, ret, filt, analysis, harmonics,
          arg, waves, out, window>>

----------------------------------------------------------------------------
(* Bounds of the model *)

\* sample values of an input signal are the integers -MaxSample..MaxSample
MaxSample == 1
\* real and imaginary parts of an ifft argument are in -MaxPart..MaxPart
MaxPart == 1
\* filter frequencies are the integers 0..MaxFreq (Hz)
MaxFreq == 5
\* sample rates are the integers 1..MaxRate (Hz)
MaxRate == 4

\* Signal lengths for which every twiddle factor and window coefficient is
\* rational (padded transform lengths 1, 2 and 4).
SignalLengths == 0 .. 4

----------------------------------------------------------------------------
(* double: exact rationals, d = 0 for a non-finite value *)

RECURSIVE GCD(_, _)
GCD(a, b) == IF b = 0 THEN a ELSE GCD(b, a % b)

Abs(i) == IF i < 0 THEN -i ELSE i

Sign(i) == IF i < 0 THEN -1 ELSE IF i > 0 THEN 1 ELSE 0

NaN == [n |-> 0, d |-> 0]

IsFinite(r) == r.d # 0

\* the fraction n/d, d # 0, in lowest terms with a positive denominator
Frac(n, d) ==
    LET g == GCD(Abs(n), Abs(d))
        s == Sign(d)
    IN  [n |-> (s * n) \div g, d |-> (s * d) \div g]

R(i) == [n |-> i, d |-> 1]

RAdd(a, b) ==
    IF IsFinite(a) /\ IsFinite(b)
    THEN Frac(a.n * b.d + b.n * a.d, a.d * b.d)
    ELSE NaN

RNeg(a) == IF IsFinite(a) THEN [n |-> -a.n, d |-> a.d] ELSE NaN

RSub(a, b) == RAdd(a, RNeg(b))

RMul(a, b) ==
    IF IsFinite(a) /\ IsFinite(b)
    THEN Frac(a.n * b.n, a.d * b.d)
    ELSE NaN

\* x/0 is an infinity for x # 0. The one quotient of the model with a zero
\* divisor and a non-zero dividend is dx = length / (numPoints - 1) for
\* numPoints = 1, and it is only ever multiplied by the index 0, which gives
\* NaN as 0/0 does: the one non-finite value kept is NaN.
RDiv(a, b) ==
    IF IsFinite(a) /\ IsFinite(b) /\ b.n # 0
    THEN Frac(a.n * b.d, a.d * b.n)
    ELSE NaN

\* comparisons: every comparison with NaN is false
RLess(a, b) == IsFinite(a) /\ IsFinite(b) /\ a.n * b.d < b.n * a.d

RLeq(a, b) == IsFinite(a) /\ IsFinite(b) /\ a.n * b.d <= b.n * a.d

REq(a, b) == IsFinite(a) /\ IsFinite(b) /\ a = b

RAbs(a) == IF IsFinite(a) THEN [n |-> Abs(a.n), d |-> a.d] ELSE NaN

\* static_cast<size_t>(r) of a non-negative finite double: truncation
Floor(r) == r.n \div r.d

----------------------------------------------------------------------------
(* Exact trigonometry.  Angles are fractions p/q of a full turn (2*pi*p/q) *)
(* with 12*p divisible by q, that is multiples of 30 degrees.  Their       *)
(* cosines and sines lie in Q(sqrt 3): [a, b] stands for a + b*sqrt(3).    *)

Half == Frac(1, 2)

CosTwelfth(j) ==
    CASE j = 0  -> [a |-> R(1),       b |-> R(0)]
      [] j = 1  -> [a |-> R(0),       b |-> Half]
      [] j = 2  -> [a |-> Half,       b |-> R(0)]
      [] j = 3  -> [a |-> R(0),       b |-> R(0)]
      [] j = 4  -> [a |-> RNeg(Half), b |-> R(0)]
      [] j = 5  -> [a |-> R(0),       b |-> RNeg(Half)]
      [] j = 6  -> [a |-> R(-1),      b |-> R(0)]
      [] j = 7  -> [a |-> R(0),       b |-> RNeg(Half)]
      [] j = 8  -> [a |-> RNeg(Half), b |-> R(0)]
      [] j = 9  -> [a |-> R(0),       b |-> R(0)]
      [] j = 10 -> [a |-> Half,       b |-> R(0)]
      [] j = 11 -> [a |-> R(0),       b |-> Half]

\* the angle 2*pi*p/q in twelfths of a turn; no value when it is not a
\* multiple of 30 degrees (the CHOOSE then has no witness and TLC stops)
Twelfths(p, q) == CHOOSE j \in 0 .. 11 : (12 * p - j * q) % (12 * q) = 0

CosQ3(p, q) == CosTwelfth(Twelfths(p, q))

SinQ3(p, q) == CosTwelfth((Twelfths(p, q) + 9) % 12)

\* the rational value of a number of Q(sqrt 3); none when it is irrational
Rational(e) == CHOOSE r \in {e.a} : e.b = R(0)

\* std::cos and std::sin of the angle 2*pi*p/q; a zero q is the double
\* division 0/0 inside the angle, whose cosine is NaN
Cos(p, q) == IF q = 0 THEN NaN ELSE Rational(CosQ3(p, q))

Sin(p, q) == IF q = 0 THEN NaN ELSE Rational(SinQ3(p, q))

----------------------------------------------------------------------------
(* struct Complex *)

Complex(r, i) == [real |-> r, imag |-> i]

CZero == Complex(R(0), R(0))

CAdd(x, y) == Complex(RAdd(x.real, y.real), RAdd(x.imag, y.imag))

CSub(x, y) == Complex(RSub(x.real, y.real), RSub(x.imag, y.imag))

CMul(x, y) ==
    Complex(RSub(RMul(x.real, y.real), RMul(x.imag, y.imag)),
            RAdd(RMul(x.real, y.imag), RMul(x.imag, y.real)))

----------------------------------------------------------------------------
(* FourierAnalyzer: the transforms *)

\* a loop that doubles once more when power has reached n
RECURSIVE DoublePowerPast(_, _)
DoublePowerPast(power, n) ==
    IF power <= n THEN DoublePowerPast(power * 2, n) ELSE power

\* the while loop of nextPowerOfTwo, entered with power = 1
RECURSIVE DoublePower(_, _)
DoublePower(power, n) == IF power < n THEN DoublePower(power * 2, n) ELSE power

nextPowerOfTwo(n) == IF n <= 1 THEN 1 ELSE DoublePower(1, n)

\* Complex w(std::cos(angle), std::sin(angle)), angle = -TWO_PI * k / n
Twiddle(k, n) == Complex(Cos(-k, n), Sin(-k, n))

\* result[k] = evenFFT[k] + t
ButterflyLow(e, t) == CAdd(e, t)

\* a combine step that adds in the upper half as well
ButterflyHighAdds(e, t) == CAdd(e, t)

\* result[k + n / 2] = evenFFT[k] - t
ButterflyHigh(e, t) == CSub(e, t)

\* Sequences are 1-based: x[i] of the code is x[i + 1] here.
RECURSIVE fftRecursive(_)
fftRecursive(x) ==
    LET n == Len(x)
    IN  IF n <= 1 THEN x
        ELSE
          LET half == n \div 2
              even == [j \in 1 .. (n + 1) \div 2 |-> x[2 * j - 1]]
              odd == [j \in 1 .. half |-> x[2 * j]]
              evenFFT == fftRecursive(even)
              oddFFT == fftRecursive(odd)
              t(k) == CMul(Twiddle(k, n), oddFFT[k + 1])
          IN  \* std::vector<Complex> result(n): an odd n leaves result[n - 1]
              \* at its default value Complex(0, 0)
              [j \in 1 .. n |->
                  LET i == j - 1
                  IN  IF i < half THEN ButterflyLow(evenFFT[i + 1], t(i))
                      ELSE IF i < 2 * half
                           THEN ButterflyHigh(evenFFT[i - half + 1], t(i - half))
                           ELSE CZero]

\* complexSignal.resize(n, Complex(0.0, 0.0))
Resize(x, n) == [j \in 1 .. n |-> IF j <= Len(x) THEN x[j] ELSE CZero]

fft(sig) ==
    LET complexSignal == [j \in 1 .. Len(sig) |-> Complex(sig[j], R(0))]
        n == nextPowerOfTwo(Len(sig))
    IN  fftRecursive(Resize(complexSignal, n))

\* a normalisation that conjugates but forgets to divide by n
NormalizeNoDivide(c, n) == Complex(c.real, RNeg(c.imag))

\* c.real = c.real / n; c.imag = -c.imag / n, n = result.size()
Normalize(c, n) == Complex(RDiv(c.real, R(n)), RDiv(RNeg(c.imag), R(n)))

ifft(spectrum) ==
    LET conjugated == [j \in 1 .. Len(spectrum) |->
                          Complex(spectrum[j].real, RNeg(spectrum[j].imag))]
        result == fftRecursive(conjugated)
    IN  [j \in 1 .. Len(result) |-> Normalize(result[j], Len(result))]

\* result.push_back(c.real) for every c
RealParts(x) == [j \in 1 .. Len(x) |-> x[j].real]

----------------------------------------------------------------------------
(* Inputs *)

RECURSIVE SeqsOfLen(_, _)
SeqsOfLen(S, n) ==
    IF n = 0 THEN {<<>>}
    ELSE {Append(s, e) : s \in SeqsOfLen(S, n - 1), e \in S}

Samples == {R(v) : v \in -MaxSample .. MaxSample}

Signals == UNION {SeqsOfLen(Samples, n) : n \in SignalLengths}

Parts == {R(v) : v \in -MaxPart .. MaxPart}

ComplexValues == {Complex(r, i) : r \in Parts, i \in Parts}

\* ifft arguments: every length 0..3 (only k = 0 twiddles below length 4) and
\* the real spectra of length 4
Spectra ==
    UNION {SeqsOfLen(ComplexValues, n) : n \in 0 .. 3}
      \cup SeqsOfLen({Complex(r, R(0)) : r \in Parts}, 4)
      \cup {<<Complex(R(3), R(0)), CZero, CZero>>}

NoFilter == [kind |-> "none"]

NoSpectrum == [bins |-> <<>>]

NoArg == [none |-> TRUE]

NoResult == [none |-> TRUE]

NoWindow == [none |-> TRUE]

----------------------------------------------------------------------------
(* The transforms applied to the inputs *)

InitTransform ==
    /\ pc = "start"
    /\ signal \in Signals
    /\ sampleRate = R(1)
    /\ spectrumArg = <<>>
    /\ ret = <<>>
    /\ filt = NoFilter
    /\ analysis = NoSpectrum
    /\ harmonics = <<>>
    /\ arg = NoArg
    /\ waves = <<>>
    /\ out = NoResult
    /\ window = NoWindow

CallFft ==
    /\ pc = "start"
    /\ pc' = "fft"
    /\ ret' = fft(signal)
    /\ UNCHANGED <<signal, sampleRate, spectrumArg, filt, analysis, harmonics,
                 arg, waves, out, window>>

\* ifft applied to what fft returned
CallIfftOfFft ==
    /\ pc = "fft"
    /\ pc' = "ifft(fft)"
    /\ spectrumArg' = ret
    /\ ret' = ifft(ret)
    /\ UNCHANGED <<signal, sampleRate, filt, analysis, harmonics,
                 arg, waves, out, window>>

NextTransform == CallFft \/ CallIfftOfFft

SpecTransform == InitTransform /\ [][NextTransform]_vars

InitInverse ==
    /\ pc = "start"
    /\ signal = <<>>
    /\ sampleRate = R(1)
    /\ spectrumArg \in Spectra
    /\ ret = <<>>
    /\ filt = NoFilter
    /\ analysis = NoSpectrum
    /\ harmonics = <<>>
    /\ arg = NoArg
    /\ waves = <<>>
    /\ out = NoResult
    /\ window = NoWindow

CallIfft ==
    /\ pc = "start"
    /\ pc' = "ifft"
    /\ ret' = ifft(spectrumArg)
    /\ UNCHANGED <<signal, sampleRate, spectrumArg, filt, analysis, harmonics,
                 arg, waves, out, window>>

NextInverse == CallIfft

SpecInverse == InitInverse /\ [][NextInverse]_vars

----------------------------------------------------------------------------
(* The reference transforms: the direct DFT sums, evaluated in Q(sqrt 3)   *)
(* so that the lengths 1, 2, 3 and 4 all have exact roots of unity.  They  *)
(* share nothing with fftRecursive but the number representation.          *)

QAdd(e, f) == [a |-> RAdd(e.a, f.a), b |-> RAdd(e.b, f.b)]

QSub(e, f) == [a |-> RSub(e.a, f.a), b |-> RSub(e.b, f.b)]

QScale(r, e) == [a |-> RMul(r, e.a), b |-> RMul(r, e.b)]

QZero == [a |-> R(0), b |-> R(0)]

\* a Complex of the code as a complex number over Q(sqrt 3)
Embed(c) == [re |-> [a |-> c.real, b |-> R(0)], im |-> [a |-> c.imag, b |-> R(0)]]

\* c * e^(2*pi*i*p/q)
Rotate(c, p, q) ==
    [re |-> QSub(QScale(c.real, CosQ3(p, q)), QScale(c.imag, SinQ3(p, q))),
     im |-> QAdd(QScale(c.real, SinQ3(p, q)), QScale(c.imag, CosQ3(p, q)))]

\* sum over the first m entries of x of x[n] * e^(dir*2*pi*i*k*n/N), N = Len(x)
RECURSIVE DftSum(_, _, _, _)
DftSum(x, k, dir, m) ==
    IF m = 0 THEN [re |-> QZero, im |-> QZero]
    ELSE LET rest == DftSum(x, k, dir, m - 1)
             term == Rotate(x[m], dir * k * (m - 1), Len(x))
         IN  [re |-> QAdd(rest.re, term.re), im |-> QAdd(rest.im, term.im)]

\* X[k] = sum over n of x[n] * e^(-2*pi*i*k*n/N)
DirectDFT(x) == [j \in 1 .. Len(x) |-> DftSum(x, j - 1, -1, Len(x))]

\* x[n] = (1/N) * sum over k of X[k] * e^(+2*pi*i*k*n/N)
DirectInverseDFT(X) ==
    [j \in 1 .. Len(X) |->
        LET sum == DftSum(X, j - 1, 1, Len(X))
            inv == Frac(1, Len(X))
        IN  [re |-> QScale(inv, sum.re), im |-> QScale(inv, sum.im)]]

EmbedAll(x) == [j \in 1 .. Len(x) |-> Embed(x[j])]

\* the signal as complex values, zero-padded to length n
Padded(sig, n) ==
    [j \in 1 .. n |-> IF j <= Len(sig) THEN Complex(sig[j], R(0)) ELSE CZero]

\* n is the least power of two that is >= len
LeastPowerOfTwo(n, len) ==
    LET Powers == {1, 2, 4, 8, 16}
    IN  n \in Powers /\ n >= len /\ \A m \in Powers : m >= len => m >= n

----------------------------------------------------------------------------
(* Claims about the transforms *)

\* C5: ifft(fft(x)) has length N = nextPowerOfTwo(length of x); its real
\* parts are x followed by N - length(x) zeros and its imaginary parts are 0
\* (exact arithmetic, N in {1, 2, 4}).
C5_RoundTrip ==
    pc = "ifft(fft)" =>
        /\ LeastPowerOfTwo(Len(ret), Len(signal))
        /\ \A j \in 1 .. Len(ret) :
              /\ ret[j].real = (IF j <= Len(signal) THEN signal[j] ELSE R(0))
              /\ ret[j].imag = R(0)

\* a round trip of a length-3 signal with a non-zero last sample: padding,
\* the -i twiddle and the division by 4 are all exercised
C5_Witness ==
    /\ pc = "ifft(fft)"
    /\ Len(signal) = 3
    /\ signal[3] # R(0)
    /\ Len(ret) = 4
    /\ \E j \in 1 .. 4 : spectrumArg[j].imag # R(0)

\* C6: fft(signal) returns exactly N = nextPowerOfTwo(length) values, equal
\* to the direct DFT of the signal zero-padded to N, for every integer
\* signal of length 0..4.
C6_FftIsDFT ==
    pc = "fft" =>
        /\ LeastPowerOfTwo(Len(ret), Len(signal))
        /\ EmbedAll(ret) = DirectDFT(Padded(signal, Len(ret)))

\* a length-4 transform with a non-real bin, and a length-3 signal padded to 4
C6_Witness ==
    /\ pc = "fft"
    /\ Len(signal) \in {3, 4}
    /\ Len(ret) = 4
    /\ ret[2].imag # R(0)
    /\ ret[2] # ret[4]

\* C7: ifft(spectrum) equals the direct inverse DFT of its argument for
\* every complex argument, whatever its length.
C7_IfftIsInverseDFT ==
    pc = "ifft" => EmbedAll(ret) = DirectInverseDFT(spectrumArg)

\* the same for arguments whose length is a power of two
C7_PowerOfTwoLengths ==
    (pc = "ifft" /\ Len(spectrumArg) \in {0, 1, 2, 4}) =>
        EmbedAll(ret) = DirectInverseDFT(spectrumArg)

\* ifft of the length-3 spectrum [3,0,0]: the code leaves the last output
\* at 0 where the inverse DFT [1,1,1] has 1
C7_Length3 ==
    /\ pc = "ifft"
    /\ spectrumArg = <<Complex(R(3), R(0)), CZero, CZero>>
    /\ ret = <<Complex(R(1), R(0)), Complex(R(1), R(0)), CZero>>
    /\ DirectInverseDFT(spectrumArg) = EmbedAll([j \in 1 .. 3 |-> Complex(R(1), R(0))])

----------------------------------------------------------------------------
(* FourierAnalyzer: the spectral filters *)

\* size_t arithmetic is modulo 2^64.  TLC's integers are 32 bits wide, so
\* the model wraps at 2^30: as in the code, a wrapped difference is far
\* above every index and bin number that occurs.
SizeModulus == 1073741824

\* the unsigned difference a - b
SizeSub(a, b) == (a - b) % SizeModulus

\* static_cast<size_t>(freq * spectrum.size() / sampleRate)
BinOf(freq, n, rate) == Floor(RDiv(RMul(freq, R(n)), rate))

Max(S) == CHOOSE m \in S : \A e \in S : e <= m

\* What a zeroing loop did: the indices i of its accesses spectrum[i], given
\* by the largest one (-1 when there is none), the bins of 0..n-1 it set to
\* zero, and whether an unsigned subtraction wrapped.

\* for (i = cutoffBin; i < spectrum.size() - cutoffBin; ++i) spectrum[i] = 0
LowPassLoop(n, cutoffBin) ==
    LET bound == SizeSub(n, cutoffBin)
    IN  [zeroed |-> {i \in 0 .. n - 1 : cutoffBin <= i /\ i < bound},
         last |-> IF cutoffBin < bound THEN bound - 1 ELSE -1,
         wrapped |-> cutoffBin > n]

\* for (i = 0; i <= cutoffBin; ++i)
\*     { spectrum[i] = 0; if (i > 0) spectrum[spectrum.size() - i] = 0; }
HighPassLoop(n, cutoffBin) ==
    LET accessed == (0 .. cutoffBin) \cup {SizeSub(n, i) : i \in 1 .. cutoffBin}
    IN  [zeroed |-> accessed \cap (0 .. n - 1),
         last |-> Max(accessed),
         wrapped |-> cutoffBin > n]

\* the test of bandPassFilter that keeps bin i
BandKeeps(n, lowBin, highBin, i) ==
    \/ ~(i < lowBin \/ i > highBin)
    \/ (i > SizeSub(n, highBin) /\ i < SizeSub(n, lowBin))

\* for (i = 0; i < spectrum.size(); ++i) if (...) spectrum[i] = 0
BandPassLoop(n, lowBin, highBin) ==
    [zeroed |-> {i \in 0 .. n - 1 : ~BandKeeps(n, lowBin, highBin, i)},
     last |-> n - 1,
     wrapped |-> \E i \in 0 .. n - 1 :
                    /\ (i < lowBin \/ i > highBin)
                    /\ \/ highBin > n
                       \/ (i > SizeSub(n, highBin) /\ lowBin > n)]

\* the filtered signal: the zeroed spectrum through ifft, real parts kept
Filtered(spectrum, zeroed) ==
    RealParts(ifft([j \in 1 .. Len(spectrum) |->
                       IF j - 1 \in zeroed THEN CZero ELSE spectrum[j]]))

\* An access spectrum[i] with i >= spectrum.size() is undefined behaviour:
\* the call may crash, or return what the in-range writes produce.
Outcomes(loop, n) ==
    IF loop.last >= n THEN {"returned", "crashed"} ELSE {"returned"}

Frequencies == {R(f) : f \in 0 .. MaxFreq}

InitFilter ==
    /\ pc = "start"
    /\ signal \in Signals
    /\ sampleRate \in {R(r) : r \in 1 .. MaxRate}
    /\ spectrumArg = <<>>
    /\ ret = <<>>
    /\ filt = NoFilter
    /\ analysis = NoSpectrum
    /\ harmonics = <<>>
    /\ arg = NoArg
    /\ waves = <<>>
    /\ out = NoResult
    /\ window = NoWindow

\* the common end of the three filters
Finish(kind, spectrum, bins, loop, outcome) ==
    /\ pc' = kind
    /\ filt' = [kind |-> kind, n |-> Len(spectrum), bins |-> bins,
                zeroed |-> loop.zeroed, last |-> loop.last,
                wrapped |-> loop.wrapped, outcome |-> outcome]
    /\ ret' = IF outcome = "returned" THEN Filtered(spectrum, loop.zeroed)
              ELSE <<>>
    /\ UNCHANGED <<signal, sampleRate, spectrumArg, analysis, harmonics,
                 arg, waves, out, window>>

\* auto spectrum = fft(signal), evaluated once per call
CallLowPassFilter ==
    /\ pc = "start"
    /\ \E cutoffFreq \in Frequencies, spectrum \in {fft(signal)} :
          LET cutoffBin == BinOf(cutoffFreq, Len(spectrum), sampleRate)
          IN  \E loop \in {LowPassLoop(Len(spectrum), cutoffBin)} :
                \E outcome \in Outcomes(loop, Len(spectrum)) :
                    Finish("lowPass", spectrum, <<cutoffBin>>, loop, outcome)

CallHighPassFilter ==
    /\ pc = "start"
    /\ \E cutoffFreq \in Frequencies, spectrum \in {fft(signal)} :
          LET cutoffBin == BinOf(cutoffFreq, Len(spectrum), sampleRate)
          IN  \E loop \in {HighPassLoop(Len(spectrum), cutoffBin)} :
                \E outcome \in Outcomes(loop, Len(spectrum)) :
                    Finish("highPass", spectrum, <<cutoffBin>>, loop, outcome)

CallBandPassFilter ==
    /\ pc = "start"
    /\ \E lowFreq \in Frequencies, highFreq \in Frequencies,
          spectrum \in {fft(signal)} :
          LET lowBin == BinOf(lowFreq, Len(spectrum), sampleRate)
              highBin == BinOf(highFreq, Len(spectrum), sampleRate)
          IN  \E loop \in {BandPassLoop(Len(spectrum), lowBin, highBin)} :
                \E outcome \in Outcomes(loop, Len(spectrum)) :
                    Finish("bandPass", spectrum, <<lowBin, highBin>>, loop, outcome)

NextFilter == CallLowPassFilter \/ CallHighPassFilter \/ CallBandPassFilter

SpecFilter == InitFilter /\ [][NextFilter]_vars

----------------------------------------------------------------------------
(* Claims about the filters *)

\* bin k and its mirror n - k are both zeroed or both kept, for every k
Symmetric(n, zeroed) ==
    \A k \in 1 .. n - 1 : (k \in zeroed) <=> ((n - k) \in zeroed)

\* C1: lowPassFilter zeroes bin k if and only if it zeroes the mirrored bin
\* N - k, for every k in 1..N-1.
C1_LowPassSymmetric ==
    (pc = "lowPass" /\ filt.outcome = "returned") =>
        Symmetric(filt.n, filt.zeroed)

\* lowPassFilter on 4 bins with cutoff bin 1: bins 1 and 2 are zeroed and
\* bin 3, the mirror of bin 1, is kept
C1_EdgeBinKept ==
    /\ pc = "lowPass"
    /\ filt.n = 4
    /\ filt.bins = <<1>>
    /\ filt.zeroed = {1, 2}

\* C2: bandPassFilter with lowBin <= highBin <= N/2 keeps bin k if and only
\* if it keeps bin N - k, for every k in 1..N-1; in particular it keeps
\* N - lowBin and N - highBin whenever it keeps lowBin and highBin.
C2_BandPassSymmetric ==
    (/\ pc = "bandPass"
     /\ filt.bins[1] <= filt.bins[2]
     /\ 2 * filt.bins[2] <= filt.n) =>
        Symmetric(filt.n, filt.zeroed)

\* bandPassFilter on 4 bins with lowBin = highBin = 1: bin 1 is kept and its
\* mirror, bin 3, is zeroed
C2_MirrorEdgeZeroed ==
    /\ pc = "bandPass"
    /\ filt.n = 4
    /\ filt.bins = <<1, 1>>
    /\ filt.zeroed = {0, 2, 3}

\* C3: for every non-negative cutoff and every band, the three filters
\* access only spectrum indices 0..N-1, and no unsigned subtraction N - bin
\* wraps around.
C3_IndicesInRange ==
    pc \in {"lowPass", "highPass", "bandPass"} =>
        /\ filt.last <= filt.n - 1
        /\ ~filt.wrapped

\* the three ways the filters leave the valid range: lowPassFilter with a
\* cutoff bin above N, highPassFilter with cutoff bin N, bandPassFilter
\* comparing against a wrapped N - highBin
C3_LowPassOverrun ==
    pc = "lowPass" /\ filt.bins[1] > filt.n /\ filt.last >= filt.n /\ filt.wrapped

C3_HighPassOverrun ==
    pc = "highPass" /\ filt.bins[1] = filt.n /\ filt.last = filt.n /\ ~filt.wrapped

C3_BandPassWraps ==
    pc = "bandPass" /\ filt.last = filt.n - 1 /\ filt.wrapped

\* C4: lowPassFilter with cutoff bin > N/2 and bandPassFilter(0, Nyquist)
\* zero no bin and return the original signal: same length, same samples.
FullBand ==
    \/ pc = "lowPass" /\ 2 * filt.bins[1] > filt.n
    \/ /\ pc = "bandPass"
       /\ filt.bins = <<0, BinOf(RDiv(sampleRate, R(2)), filt.n, sampleRate)>>

C4_FullBandIsIdentity ==
    FullBand => (filt.zeroed = {} /\ filt.last <= filt.n - 1 /\ ret = signal)

\* what does hold of a full band: when the filter returns, nothing was
\* zeroed and the result is the signal zero-padded to N samples
C4_FullBandReturnsPadded ==
    (FullBand /\ filt.outcome = "returned") =>
        /\ filt.zeroed = {}
        /\ ret = [j \in 1 .. filt.n |->
                    IF j <= Len(signal) THEN signal[j] ELSE R(0)]

\* a full-band low pass of a length-3 signal returns 4 samples
C4_Length3Padded ==
    /\ pc = "lowPass"
    /\ 2 * filt.bins[1] > filt.n
    /\ filt.bins[1] <= filt.n
    /\ Len(signal) = 3
    /\ Len(ret) = 4

----------------------------------------------------------------------------
(* FourierAnalyzer: windows, the one-sided spectrum and its harmonics *)

\* A magnitude sqrt(real^2 + imag^2) is rarely rational: a non-negative
\* double that comes from a magnitude is kept as its square, [sq |-> m^2].
\* Scaling by r >= 0 multiplies the square by r^2, and the order of two
\* magnitudes is the order of their squares.
Root(r) == [sq |-> RMul(r, r)]

\* Complex::magnitude
magnitude(c) == [sq |-> RAdd(RMul(c.real, c.real), RMul(c.imag, c.imag))]

\* Complex::phase: std::atan2(imag, real), kept as its two arguments
phase(c) == [y |-> c.imag, x |-> c.real]

MagScale(m, r) == [sq |-> RMul(m.sq, RMul(r, r))]

MagLess(a, b) == RLess(a.sq, b.sq)

MagLeq(a, b) == RLeq(a.sq, b.sq)

\* the window coefficient of sample i of n
WindowCoefficient(windowType, i, n) ==
    CASE windowType = "hanning" ->
            RSub(Half, RMul(Half, Cos(i, n - 1)))
      [] windowType = "hamming" ->
            RSub(Frac(54, 100), RMul(Frac(46, 100), Cos(i, n - 1)))
      [] windowType = "blackman" ->
            RAdd(RSub(Frac(42, 100), RMul(Half, Cos(i, n - 1))),
                 RMul(Frac(8, 100), Cos(2 * i, n - 1)))
      [] OTHER -> R(1)

applyWindow(sig, windowType) ==
    IF windowType \in {"hanning", "hamming", "blackman"}
    THEN [j \in 1 .. Len(sig) |->
             RMul(sig[j], WindowCoefficient(windowType, j - 1, Len(sig)))]
    ELSE sig

\* a normalisation that takes the Nyquist bin for an interior bin
NormalizationNoNyquist(i, fftSize) ==
    IF i > 0 THEN RDiv(R(2), R(fftSize)) ELSE RDiv(R(1), R(fftSize))

\* the bins i with 0 < i < fftSize / 2 are scaled by 2/fftSize, DC and
\* Nyquist by 1/fftSize
Normalization(i, fftSize) ==
    IF i > 0 /\ i < fftSize \div 2
    THEN RDiv(R(2), R(fftSize))
    ELSE RDiv(R(1), R(fftSize))

\* the scan for the fundamental from bin i on: the first bin of strictly
\* largest magnitude above maxMagnitude
RECURSIVE FindFundamental(_, _, _, _)
FindFundamental(bins, i, maxMagnitude, fundamentalFreq) ==
    IF i >= Len(bins) THEN [maxMagnitude |-> maxMagnitude,
                            fundamentalFreq |-> fundamentalFreq]
    ELSE IF MagLess(maxMagnitude, bins[i + 1].magnitude)
         THEN FindFundamental(bins, i + 1, bins[i + 1].magnitude,
                              bins[i + 1].frequency)
         ELSE FindFundamental(bins, i + 1, maxMagnitude, fundamentalFreq)

\* a scan that moves to a later bin at an equal distance as well
RECURSIVE FindClosestLast(_, _, _, _, _)
FindClosestLast(bins, targetFreq, i, closestBin, minDistance) ==
    IF i >= Len(bins) THEN [closestBin |-> closestBin,
                            minDistance |-> minDistance]
    ELSE LET distance == RAbs(RSub(bins[i + 1].frequency, targetFreq))
         IN  IF RLeq(distance, minDistance)
             THEN FindClosestLast(bins, targetFreq, i + 1, i, distance)
             ELSE FindClosestLast(bins, targetFreq, i + 1, closestBin,
                                  minDistance)

\* the scan for the bin closest to targetFreq from bin i on
RECURSIVE FindClosest(_, _, _, _, _)
FindClosest(bins, targetFreq, i, closestBin, minDistance) ==
    IF i >= Len(bins) THEN [closestBin |-> closestBin,
                            minDistance |-> minDistance]
    ELSE LET distance == RAbs(RSub(bins[i + 1].frequency, targetFreq))
         IN  IF RLess(distance, minDistance)
             THEN FindClosest(bins, targetFreq, i + 1, i, distance)
             ELSE FindClosest(bins, targetFreq, i + 1, closestBin, minDistance)

MaxOrder == 10

\* the loop over the harmonic orders from `order` on
RECURSIVE HarmonicsFrom(_, _, _, _, _)
HarmonicsFrom(spec, threshold, fundamentalFreq, order, found) ==
    IF order > MaxOrder THEN found
    ELSE
      LET targetFreq == RMul(R(order), fundamentalFreq)
          toleranceHz == RMul(spec.frequencyResolution, R(2))
      IN  IF RLess(spec.maxFrequency, targetFreq) THEN found
          ELSE
            LET c == FindClosest(spec.bins, targetFreq, 1, 0,
                       RAbs(RSub(spec.bins[1].frequency, targetFreq)))
                bin == spec.bins[c.closestBin + 1]
                hit == /\ RLeq(c.minDistance, toleranceHz)
                       /\ MagLeq(Root(threshold), bin.magnitude)
            IN  HarmonicsFrom(spec, threshold, fundamentalFreq, order + 1,
                    IF hit
                    THEN Append(found, [frequency |-> bin.frequency,
                                        amplitude |-> bin.magnitude,
                                        phase |-> bin.phase,
                                        order |-> order])
                    ELSE found)

\* a search that starts at the second harmonic
FindHarmonicsFromSecond(spec, threshold) ==
    IF spec.bins = <<>> THEN <<>>
    ELSE
      LET f == FindFundamental(spec.bins, 1, Root(R(0)), R(0))
      IN  IF REq(f.fundamentalFreq, R(0)) \/ MagLess(f.maxMagnitude, Root(threshold))
          THEN <<>>
          ELSE HarmonicsFrom(spec, threshold, f.fundamentalFreq, 2, <<>>)

\* threshold is a non-negative double
findHarmonics(spec, threshold) ==
    IF spec.bins = <<>> THEN <<>>
    ELSE
      LET f == FindFundamental(spec.bins, 1, Root(R(0)), R(0))
      IN  IF REq(f.fundamentalFreq, R(0)) \/ MagLess(f.maxMagnitude, Root(threshold))
          THEN <<>>
          ELSE HarmonicsFrom(spec, threshold, f.fundamentalFreq, 1, <<>>)

\* the default threshold of findHarmonics
DefaultThreshold == Frac(1, 10)

\* getSpectrum past its check for an empty signal
SpectrumOf(sig, rate) ==
    LET fftResult == fft(applyWindow(sig, "hanning"))
        fftSize == Len(fftResult)
        resolution == RDiv(rate, R(fftSize))
        numBins == fftSize \div 2 + 1
        found == [sampleRate |-> rate,
                  frequencyResolution |-> resolution,
                  maxFrequency |-> RDiv(rate, R(2)),
                  bins |-> [j \in 1 .. numBins |->
                      [frequency |-> RMul(R(j - 1), resolution),
                       magnitude |-> MagScale(magnitude(fftResult[j]),
                                              Normalization(j - 1, fftSize)),
                       phase |-> phase(fftResult[j])]]]
    IN  [sampleRate |-> found.sampleRate,
         frequencyResolution |-> found.frequencyResolution,
         maxFrequency |-> found.maxFrequency,
         bins |-> found.bins,
         harmonics |-> findHarmonics(found, DefaultThreshold)]

\* a getSpectrum without the check for an empty signal
GetSpectrumUnchecked(sig, rate, garbage) == SpectrumOf(sig, rate)

\* `FrequencySpectrum spectrum;` leaves the three doubles uninitialised:
\* for an empty signal they are returned as they are, `garbage`
getSpectrum(sig, rate, garbage) ==
    IF sig = <<>>
    THEN [sampleRate |-> garbage[1],
          frequencyResolution |-> garbage[2],
          maxFrequency |-> garbage[3],
          bins |-> <<>>,
          harmonics |-> <<>>]
    ELSE SpectrumOf(sig, rate)

\* the values an uninitialised double is drawn from
Indeterminate == {R(0), R(1), NaN}

Thresholds == {R(0), DefaultThreshold, Half}

InitSpectrum ==
    /\ pc = "start"
    /\ signal \in Signals
    /\ sampleRate \in {R(r) : r \in 1 .. MaxRate}
    /\ spectrumArg = <<>>
    /\ ret = <<>>
    /\ filt = NoFilter
    /\ analysis = NoSpectrum
    /\ harmonics = <<>>
    /\ arg = NoArg
    /\ waves = <<>>
    /\ out = NoResult
    /\ window = NoWindow

\* A non-empty signal has the three doubles assigned before anything reads
\* them, so one initial value stands for all.
Garbage(sig) ==
    IF sig = <<>> THEN SeqsOfLen(Indeterminate, 3) ELSE {<<NaN, NaN, NaN>>}

CallGetSpectrum ==
    /\ pc = "start"
    /\ pc' = "getSpectrum"
    /\ \E garbage \in Garbage(signal) :
          analysis' = getSpectrum(signal, sampleRate, garbage)
    /\ UNCHANGED <<signal, sampleRate, spectrumArg, ret, filt, harmonics,
                 arg, waves, out, window>>

\* findHarmonics applied to a spectrum getSpectrum returned
CallFindHarmonics ==
    /\ pc \in {"getSpectrum", "given"}
    /\ pc' = "findHarmonics"
    /\ \E threshold \in Thresholds :
          /\ harmonics' = findHarmonics(analysis, threshold)
          /\ arg' = [threshold |-> threshold]
    /\ UNCHANGED <<signal, sampleRate, spectrumArg, ret, filt, analysis,
                   waves, out, window>>

NextSpectrum == CallGetSpectrum \/ CallFindHarmonics

SpecSpectrum == InitSpectrum /\ [][NextSpectrum]_vars

----------------------------------------------------------------------------
(* Claims about the spectrum *)

\* sample n of A*sin(2*pi*f*t + phase) at t = n/sampleRate, for a frequency
\* on the centre of bin k of 4 (f*t = k*n/4) and a phase of `quarter`
\* quarter turns
ToneSample(A, k, quarter, n) == RMul(R(A), Sin(k * n + quarter, 4))

Tone(A, k, quarter) == [j \in 1 .. 4 |-> ToneSample(A, k, quarter, j - 1)]

\* the tones of 4 samples: bin 1 at any phase, and the Nyquist bin 2 sampled
\* at its peaks
Tones ==
    {[A |-> A, k |-> k, quarter |-> q] :
        A \in 1 .. MaxSample, k \in {1, 2}, q \in 0 .. 3}
      \ {[A |-> A, k |-> 2, quarter |-> q] : A \in 1 .. MaxSample, q \in {0, 2}}

\* C8: for a sinusoid of amplitude A exactly on a bin centre, getSpectrum
\* returns magnitude A at that bin and 0 at every other non-DC bin (N = 4).
C8_BinExactTone ==
    pc = "getSpectrum" =>
        \A t \in Tones :
            signal = Tone(t.A, t.k, t.quarter) =>
                \A i \in 1 .. 2 :
                    analysis.bins[i + 1].magnitude =
                        (IF i = t.k THEN Root(R(t.A)) ELSE Root(R(0)))

\* the tone [0, 1, 0, -1] at 4 Hz: the Hanning window leaves [0, 3/4, 0, 0],
\* so bin 1 has magnitude 3/8 (not 1) and the Nyquist bin 3/16 (not 0)
C8_WindowedTone ==
    /\ pc = "getSpectrum"
    /\ signal = Tone(1, 1, 0)
    /\ signal = <<R(0), R(1), R(0), R(-1)>>
    /\ analysis.bins[2].magnitude = Root(Frac(3, 8))
    /\ analysis.bins[3].magnitude = Root(Frac(3, 16))

\* C9: for a non-empty signal getSpectrum returns N/2+1 bins, bin i at
\* frequency i*sampleRate/N, frequencyResolution = sampleRate/N and
\* maxFrequency = sampleRate/2; the magnitude of bin i is |X[i]|*2/N for
\* 0 < i < N/2 and |X[i]|/N for i = 0 and i = N/2, X being the transform of
\* the windowed signal.
C9_OneSidedSpectrum ==
    (pc = "getSpectrum" /\ signal # <<>>) =>
        LET X == fft(applyWindow(signal, "hanning"))
            N == Len(X)
            bins == analysis.bins
        IN  /\ LeastPowerOfTwo(N, Len(signal))
            /\ Len(bins) = N \div 2 + 1
            /\ analysis.frequencyResolution = Frac(sampleRate.n, sampleRate.d * N)
            /\ analysis.maxFrequency = Frac(sampleRate.n, sampleRate.d * 2)
            /\ \A i \in 0 .. N \div 2 :
                  /\ bins[i + 1].frequency = Frac(i * sampleRate.n, sampleRate.d * N)
                  /\ bins[i + 1].magnitude.sq =
                        LET m2 == magnitude(X[i + 1]).sq
                        IN  IF 0 < i /\ 2 * i < N
                            THEN RDiv(RMul(m2, R(4)), R(N * N))
                            ELSE RDiv(m2, R(N * N))
            /\ \A i \in 1 .. N \div 2 :
                  RLess(bins[i].frequency, bins[i + 1].frequency)

\* a spectrum of 3 bins whose interior and Nyquist bins are both non-zero
C9_Witness ==
    /\ pc = "getSpectrum"
    /\ Len(signal) \in {3, 4}
    /\ Len(analysis.bins) = 3
    /\ analysis.bins[2].magnitude # Root(R(0))
    /\ analysis.bins[3].magnitude # Root(R(0))
    /\ analysis.bins[2].magnitude # analysis.bins[3].magnitude

\* C10: getSpectrum on an empty signal returns a spectrum with zero bins
\* and zero harmonics; findHarmonics on a spectrum with zero bins returns an
\* empty list.
C10_EmptySignal ==
    /\ (pc \in {"getSpectrum", "findHarmonics"} /\ signal = <<>>) =>
          (analysis.bins = <<>> /\ analysis.harmonics = <<>>)
    /\ (pc = "findHarmonics" /\ analysis.bins = <<>>) => harmonics = <<>>

\* findHarmonics has run on the spectrum of the empty signal
C10_Witness ==
    /\ pc = "findHarmonics"
    /\ signal = <<>>
    /\ analysis.bins = <<>>
    /\ harmonics = <<>>

\* the same call does find harmonics in other spectra
C10_SomeHarmonics == pc = "findHarmonics" /\ harmonics # <<>>

-----------------------------------------------------------------------------
(* findHarmonics on a FrequencySpectrum the caller built: the struct is    *)
(* public, and so are its fields.  Bin j (from 0) carries the phase        *)
(* atan2(j, 1), so that the bin a harmonic was copied from can be told.    *)

MaxBins == 3

MaxBinFreq == 4

\* the strictly ascending sequences of n frequencies that start at `from`
RECURSIVE Ascending(_, _)
Ascending(n, from) ==
    IF n = 0 THEN {<<>>}
    ELSE UNION {{<<f>> \o rest : rest \in Ascending(n - 1, f + 1)} :
                  f \in from .. MaxBinFreq}

BinMagnitudes == {Root(R(0)), Root(Frac(1, 10)), Root(R(1))}

BinsOf(freqs, mags) ==
    [j \in 1 .. Len(freqs) |-> [frequency |-> R(freqs[j]),
                                magnitude |-> mags[j],
                                phase |-> [y |-> R(j - 1), x |-> R(1)]]]

HarmonicSpectra ==
    {[sampleRate |-> RMul(R(2), maxFrequency),
      frequencyResolution |-> resolution,
      maxFrequency |-> maxFrequency,
      bins |-> BinsOf(shape[1], shape[2])] :
        resolution \in {Frac(1, 4), R(1), R(4)},
        maxFrequency \in {R(2), R(12)},
        shape \in UNION {Ascending(n, 0) \X SeqsOfLen(BinMagnitudes, n) :
                           n \in 1 .. MaxBins}}

InitHarmonics ==
    /\ pc = "given"
    /\ signal = <<>>
    /\ sampleRate = R(0)
    /\ spectrumArg = <<>>
    /\ ret = <<>>
    /\ filt = NoFilter
    /\ analysis \in HarmonicSpectra
    /\ harmonics = <<>>
    /\ arg = NoArg
    /\ waves = <<>>
    /\ out = NoResult
    /\ window = NoWindow

NextHarmonics == CallFindHarmonics

SpecHarmonics == InitHarmonics /\ [][NextHarmonics]_vars

-----------------------------------------------------------------------------
(* What the harmonics of a spectrum are, stated without the scans *)

\* the non-DC bin of maximum magnitude, lowest index on ties (bins from 1)
FundamentalBin(bins) ==
    CHOOSE i \in 2 .. Len(bins) :
        \A j \in 2 .. Len(bins) :
            /\ MagLeq(bins[j].magnitude, bins[i].magnitude)
            /\ j < i => MagLess(bins[j].magnitude, bins[i].magnitude)

Distance(bins, i, targetFreq) == RAbs(RSub(bins[i].frequency, targetFreq))

\* the bin nearest targetFreq, lowest index on equal distance
NearestBin(bins, targetFreq) ==
    CHOOSE i \in 1 .. Len(bins) :
        \A j \in 1 .. Len(bins) :
            /\ RLeq(Distance(bins, i, targetFreq), Distance(bins, j, targetFreq))
            /\ j < i => RLess(Distance(bins, i, targetFreq),
                              Distance(bins, j, targetFreq))

\* the orders that are looked at: 1..10 up to the first whose target
\* exceeds maxFrequency
OrdersLookedAt(spec, fundamental) ==
    {o \in 1 .. 10 :
        \A q \in 1 .. o : RLeq(RMul(R(q), fundamental), spec.maxFrequency)}

Emits(spec, threshold, fundamental, o) ==
    LET target == RMul(R(o), fundamental)
        bin == spec.bins[NearestBin(spec.bins, target)]
    IN  /\ RLeq(Distance(spec.bins, NearestBin(spec.bins, target), target),
                RMul(R(2), spec.frequencyResolution))
        /\ MagLeq(Root(threshold), bin.magnitude)

HarmonicOf(spec, fundamental, o) ==
    LET bin == spec.bins[NearestBin(spec.bins, RMul(R(o), fundamental))]
    IN  [frequency |-> bin.frequency, amplitude |-> bin.magnitude,
         phase |-> bin.phase, order |-> o]

\* found is the list of the harmonics of the emitted orders, ascending
IsHarmonicList(found, spec, threshold, fundamental) ==
    /\ \A k \in 1 .. Len(found) :
          /\ found[k].order \in OrdersLookedAt(spec, fundamental)
          /\ Emits(spec, threshold, fundamental, found[k].order)
          /\ found[k] = HarmonicOf(spec, fundamental, found[k].order)
          /\ k > 1 => found[k - 1].order < found[k].order
    /\ \A o \in OrdersLookedAt(spec, fundamental) :
          Emits(spec, threshold, fundamental, o) =>
              \E k \in 1 .. Len(found) : found[k].order = o

\* C11 as stated: the fundamental is the non-DC bin of maximum magnitude
\* (lowest index on ties); the result is empty when that bin's frequency is 0
\* or its magnitude is below threshold, and otherwise holds, for the orders
\* 1..10 up to the first whose target exceeds maxFrequency, a harmonic
\* exactly for the orders whose nearest bin is within 2*frequencyResolution
\* and of magnitude >= threshold, copied from that bin.
C11_FindHarmonicsAsStated ==
    (pc = "findHarmonics" /\ Len(analysis.bins) >= 2) =>
        LET top == analysis.bins[FundamentalBin(analysis.bins)]
        IN  IF \/ REq(top.frequency, R(0))
               \/ MagLess(top.magnitude, Root(arg.threshold))
            THEN harmonics = <<>>
            ELSE IsHarmonicList(harmonics, analysis, arg.threshold,
                                top.frequency)

\* no non-DC bin has a magnitude above 0 (a spectrum of one bin included)
Silent(bins) ==
    \A j \in 2 .. Len(bins) : ~MagLess(Root(R(0)), bins[j].magnitude)

\* C11, amended: the result is empty as well when no non-DC bin has a
\* magnitude above 0; in every other case it is as stated.
C11_FindHarmonics ==
    pc = "findHarmonics" =>
        IF Silent(analysis.bins) THEN harmonics = <<>>
        ELSE LET top == analysis.bins[FundamentalBin(analysis.bins)]
             IN  IF \/ REq(top.frequency, R(0))
                    \/ MagLess(top.magnitude, Root(arg.threshold))
                 THEN harmonics = <<>>
                 ELSE IsHarmonicList(harmonics, analysis, arg.threshold,
                                     top.frequency)

\* a harmonic copied from the earlier of two bins at equal distance from its
\* target, next to an order that was looked at and not emitted
C11_Witness ==
    /\ pc = "findHarmonics"
    /\ ~Silent(analysis.bins)
    /\ LET f == analysis.bins[FundamentalBin(analysis.bins)].frequency
       IN  /\ \E k \in 1 .. Len(harmonics) :
                LET target == RMul(R(harmonics[k].order), f)
                IN  \E i, j \in 1 .. Len(analysis.bins) :
                       /\ i < j
                       /\ harmonics[k].phase = analysis.bins[i].phase
                       /\ Distance(analysis.bins, i, target)
                            = Distance(analysis.bins, j, target)
           /\ \E o \in OrdersLookedAt(analysis, f) :
                \A k \in 1 .. Len(harmonics) : harmonics[k].order # o

\* a silent spectrum searched with threshold 0: nothing is returned, though
\* its first non-DC bin has a non-zero frequency and a magnitude >= 0
C11_SilentSpectrum ==
    /\ pc = "findHarmonics"
    /\ Len(analysis.bins) >= 2
    /\ Silent(analysis.bins)
    /\ arg.threshold = R(0)
    /\ ~REq(analysis.bins[2].frequency, R(0))
    /\ harmonics = <<>>

-----------------------------------------------------------------------------
(* nextPowerOfTwo on its own *)

MaxN == 100

Sizes == 0 .. MaxN \cup {1024}

InitPower ==
    /\ pc = "number"
    /\ signal = <<>>
    /\ sampleRate = R(0)
    /\ spectrumArg = <<>>
    /\ ret = <<>>
    /\ filt = NoFilter
    /\ analysis = NoSpectrum
    /\ harmonics = <<>>
    /\ arg \in {[n |-> n] : n \in Sizes}
    /\ waves = <<>>
    /\ out = NoResult
    /\ window = NoWindow

CallNextPowerOfTwo ==
    /\ pc = "number"
    /\ pc' = "nextPowerOfTwo"
    /\ out' = nextPowerOfTwo(arg.n)
    /\ UNCHANGED <<signal, sampleRate, spectrumArg, ret, filt, analysis,
                   harmonics, arg, waves, window>>

NextPower == CallNextPowerOfTwo

SpecPower == InitPower /\ [][NextPower]_vars

PowersOfTwo == {2 ^ k : k \in 0 .. 12}

\* C13: nextPowerOfTwo(n) is the smallest power of two >= n: it is a power
\* of two p >= n with p/2 < n whenever n > 1, and no smaller power of two is
\* >= n; 0 and 1 give 1, 5 gives 8 and 1024 gives 1024.
C13_NextPowerOfTwo ==
    pc = "nextPowerOfTwo" =>
        /\ out \in PowersOfTwo
        /\ out >= arg.n
        /\ arg.n > 1 => out < 2 * arg.n
        /\ \A q \in PowersOfTwo : q >= arg.n => out <= q
        /\ arg.n \in {0, 1} => out = 1
        /\ arg.n = 5 => out = 8
        /\ arg.n = 1024 => out = 1024

\* a power of two is returned unchanged and the number after it doubles
C13_Witness ==
    /\ pc = "nextPowerOfTwo"
    /\ \/ arg.n = 64 /\ out = 64
       \/ arg.n = 65 /\ out = 128

-----------------------------------------------------------------------------
(* calculateTHD on a list of harmonics of distinct ascending orders, as    *)
(* findHarmonics returns them                                              *)

MaxListOrder == 4

HarmonicAmplitudes == {Root(R(0)), Root(Frac(1, 4)), Root(Half), Root(R(1))}

\* the lists of harmonics whose orders are taken in ascending order from
\* `from` .. MaxListOrder
RECURSIVE HarmonicListsFrom(_)
HarmonicListsFrom(from) ==
    IF from > MaxListOrder THEN {<<>>}
    ELSE HarmonicListsFrom(from + 1) \cup
         {<<[frequency |-> R(from), amplitude |-> a,
             phase |-> [y |-> R(0), x |-> R(1)], order |-> from]>> \o rest :
            a \in HarmonicAmplitudes, rest \in HarmonicListsFrom(from + 1)}

\* the loop of calculateTHD over the harmonics from index k on
RECURSIVE Powers(_, _, _, _)
Powers(list, k, fundamentalPower, harmonicPower) ==
    IF k > Len(list)
    THEN [fundamentalPower |-> fundamentalPower,
          harmonicPower |-> harmonicPower]
    ELSE LET power == list[k].amplitude.sq
         IN  IF list[k].order = 1
             THEN Powers(list, k + 1, power, harmonicPower)
             ELSE Powers(list, k + 1, fundamentalPower,
                         RAdd(harmonicPower, power))

\* a distortion that counts the fundamental among the harmonics
CalculateTHDWithFundamental(list) ==
    IF list = <<>> THEN Root(R(0))
    ELSE LET p == Powers(list, 1, R(0), R(0))
         IN  IF REq(p.fundamentalPower, R(0)) THEN Root(R(0))
             ELSE MagScale(
                    [sq |-> RDiv(RAdd(p.harmonicPower, p.fundamentalPower),
                                 p.fundamentalPower)], R(100))

\* the double returned is kept as its square, as a magnitude is
calculateTHD(list) ==
    IF list = <<>> THEN Root(R(0))
    ELSE LET p == Powers(list, 1, R(0), R(0))
         IN  IF REq(p.fundamentalPower, R(0)) THEN Root(R(0))
             ELSE MagScale([sq |-> RDiv(p.harmonicPower, p.fundamentalPower)],
                           R(100))

InitTHD ==
    /\ pc = "listed"
    /\ signal = <<>>
    /\ sampleRate = R(0)
    /\ spectrumArg = <<>>
    /\ ret = <<>>
    /\ filt = NoFilter
    /\ analysis = NoSpectrum
    /\ harmonics \in HarmonicListsFrom(1)
    /\ arg = NoArg
    /\ waves = <<>>
    /\ out = NoResult
    /\ window = NoWindow

CallCalculateTHD ==
    /\ pc = "listed"
    /\ pc' = "calculateTHD"
    /\ out' = calculateTHD(harmonics)
    /\ UNCHANGED <<signal, sampleRate, spectrumArg, ret, filt, analysis,
                   harmonics, arg, waves, window>>

NextTHD == CallCalculateTHD

SpecTHD == InitTHD /\ [][NextTHD]_vars

\* the sum of the squared amplitudes of the harmonics at the indices in S
RECURSIVE SumOfSquares(_, _)
SumOfSquares(list, S) ==
    IF S = {} THEN R(0)
    ELSE LET k == CHOOSE k \in S : TRUE
         IN  RAdd(list[k].amplitude.sq, SumOfSquares(list, S \ {k}))

TheExample ==
    <<[frequency |-> R(1), amplitude |-> Root(R(1)),
       phase |-> [y |-> R(0), x |-> R(1)], order |-> 1],
      [frequency |-> R(2), amplitude |-> Root(Half),
       phase |-> [y |-> R(0), x |-> R(1)], order |-> 2],
      [frequency |-> R(4), amplitude |-> Root(Frac(1, 4)),
       phase |-> [y |-> R(0), x |-> R(1)], order |-> 4]>>

\* C12: the square of calculateTHD(harmonics) is 10000 * P_h / P_1, with P_1
\* the squared amplitude of the order-1 harmonic and P_h the sum of the
\* squared amplitudes of the harmonics of order >= 2; it is 0 when the list
\* is empty, has no order-1 harmonic or the order-1 amplitude is 0; for the
\* amplitudes 1, 0.5, 0.25 at the orders 1, 2, 4 the square is 3125.
C12_THD ==
    pc = "calculateTHD" =>
        LET first == {k \in 1 .. Len(harmonics) : harmonics[k].order = 1}
            higher == {k \in 1 .. Len(harmonics) : harmonics[k].order >= 2}
            P1 == SumOfSquares(harmonics, first)
            Ph == SumOfSquares(harmonics, higher)
        IN  /\ IF harmonics = <<>> \/ first = {} \/ P1 = R(0)
               THEN out.sq = R(0)
               ELSE out.sq = RMul(R(10000), RDiv(Ph, P1))
            /\ harmonics = TheExample => out.sq = R(3125)

\* the example of the claim
C12_Witness ==
    /\ pc = "calculateTHD"
    /\ harmonics = TheExample
    /\ out.sq = R(3125)

-----------------------------------------------------------------------------
(* WaveFunction and WaveEngine: the collection of owned waves.  A wave is  *)
(* the record of its class and its three fields.                          *)

Wave(type, a, f, p) ==
    [type |-> type, amplitude |-> a, frequency |-> f, phase |-> p]

\* SinusoidalWave(amplitude, frequency, phase), phase in degrees
SinusoidalWave(a, f, p) == Wave("sinusoidal", a, f, p)

getAmplitude(wave) == wave.amplitude

getFrequency(wave) == wave.frequency

\* nullptr
Null == [null |-> TRUE]

MaxWaves == 3

EngineFrequencies == {R(1), Frac(201, 200), Frac(11, 10), R(4)}

\* waves of one amplitude at every frequency, a smaller one, and two of
\* negative amplitude
EngineWaves ==
    {SinusoidalWave(R(2), f, R(0)) : f \in EngineFrequencies} \cup
    {SinusoidalWave(R(1), R(1), R(0)), SinusoidalWave(R(-1), R(1), R(0)),
     SinusoidalWave(R(-2), R(4), R(0))}

\* the size_t indices a caller passes: in range, at the end, and past it
Indices == 0 .. MaxWaves + 1

\* a push_back at the front
AddWaveInFront(ws, wave) == <<wave>> \o ws

\* waves_.push_back(std::move(wave))
addWave(ws, wave) == Append(ws, wave)

\* waves_.erase(waves_.begin() + index), index < size
Erase(ws, index) ==
    [j \in 1 .. Len(ws) - 1 |-> IF j <= index THEN ws[j] ELSE ws[j + 1]]

\* a removal that takes the last wave for an index past the end
RemoveWaveClamped(ws, index) ==
    IF index < Len(ws) THEN Erase(ws, index)
    ELSE IF ws = <<>> THEN ws ELSE Erase(ws, Len(ws) - 1)

removeWave(ws, index) == IF index < Len(ws) THEN Erase(ws, index) ELSE ws

clearWaves(ws) == <<>>

getWave(ws, index) == IF index < Len(ws) THEN ws[index + 1] ELSE Null

\* the engine after construction
InitEngine ==
    /\ pc = "WaveEngine"
    /\ signal = <<>>
    /\ sampleRate = R(0)
    /\ spectrumArg = <<>>
    /\ ret = <<>>
    /\ filt = NoFilter
    /\ analysis = NoSpectrum
    /\ harmonics = <<>>
    /\ arg = NoArg
    /\ waves = <<>>
    /\ out = NoResult
    /\ window = NoWindow

fourier ==
    <<signal, sampleRate, spectrumArg, ret, filt, analysis, harmonics>>

\* arg.count is waves_.size() as the call finds it
CallAddWave ==
    /\ Len(waves) < MaxWaves
    /\ \E wave \in EngineWaves :
          /\ waves' = addWave(waves, wave)
          /\ arg' = [wave |-> wave, count |-> Len(waves)]
    /\ pc' = "addWave"
    /\ out' = NoResult
    /\ UNCHANGED <<fourier, window>>

CallRemoveWave ==
    /\ \E index \in Indices :
          /\ waves' = removeWave(waves, index)
          /\ arg' = [index |-> index, count |-> Len(waves)]
    /\ pc' = "removeWave"
    /\ out' = NoResult
    /\ UNCHANGED <<fourier, window>>

CallClearWaves ==
    /\ waves' = clearWaves(waves)
    /\ arg' = [count |-> Len(waves)]
    /\ pc' = "clearWaves"
    /\ out' = NoResult
    /\ UNCHANGED <<fourier, window>>

CallGetWave ==
    /\ \E index \in Indices :
          /\ out' = getWave(waves, index)
          /\ arg' = [index |-> index, count |-> Len(waves)]
    /\ pc' = "getWave"
    /\ UNCHANGED <<waves, fourier, window>>

\* the frequencies vector the readers fill from waves_
FrequenciesOf(ws) == [j \in 1 .. Len(ws) |-> getFrequency(ws[j])]

\* std::sort(frequencies.begin(), frequencies.end()): insertion of v into
\* an ascending sequence, and the ascending sequence of the values of seq
RECURSIVE Insert(_, _)
Insert(sorted, v) ==
    IF sorted = <<>> THEN <<v>>
    ELSE IF RLess(v, Head(sorted)) THEN <<v>> \o sorted
         ELSE <<Head(sorted)>> \o Insert(Tail(sorted), v)

RECURSIVE Sort(_)
Sort(seq) == IF seq = <<>> THEN <<>> ELSE Insert(Sort(Tail(seq)), Head(seq))

\* std::numeric_limits<double>::max(): a number far above every frequency
\* gap of the model stands for it
DoubleMax == R(1000000)

\* a scan that takes a gap of 0 for a gap as well
RECURSIVE MinGapWithZero(_, _, _)
MinGapWithZero(frequencies, i, minDiff) ==
    IF i >= Len(frequencies) THEN minDiff
    ELSE LET diff == RSub(frequencies[i + 1], frequencies[i])
         IN  MinGapWithZero(frequencies, i + 1,
                            IF RLess(diff, minDiff) THEN diff ELSE minDiff)

\* the loop over the sorted frequencies from index i on
RECURSIVE MinGap(_, _, _)
MinGap(frequencies, i, minDiff) ==
    IF i >= Len(frequencies) THEN minDiff
    ELSE LET diff == RSub(frequencies[i + 1], frequencies[i])
         IN  MinGap(frequencies, i + 1,
                    IF RLess(R(0), diff) /\ RLess(diff, minDiff)
                    THEN diff ELSE minDiff)

\* the scan over the frequencies in the order of the collection
BeatFrequencyUnsorted(ws) ==
    IF Len(ws) < 2 THEN R(0)
    ELSE LET minDiff == MinGap(FrequenciesOf(ws), 1, DoubleMax)
         IN  IF RLess(minDiff, DoubleMax) THEN minDiff ELSE R(0)

calculateBeatFrequency(ws) ==
    IF Len(ws) < 2 THEN R(0)
    ELSE LET minDiff == MinGap(Sort(FrequenciesOf(ws)), 1, DoubleMax)
         IN  IF RLess(minDiff, DoubleMax) THEN minDiff ELSE R(0)

\* the two nested loops: some pair of frequencies less than 0.01 apart
hasResonance(frequencies) ==
    \E i \in 1 .. Len(frequencies) :
        \E j \in i + 1 .. Len(frequencies) :
            RLess(RAbs(RSub(frequencies[i], frequencies[j])), Frac(1, 100))

\* a decision that looks for resonance before it looks for beating
DetectPhenomenonResonanceFirst(ws) ==
    IF Len(ws) = 0 THEN "No waves"
    ELSE IF Len(ws) = 1 THEN "Single wave"
    ELSE IF hasResonance(FrequenciesOf(ws)) THEN "Resonance"
    ELSE LET beatFreq == calculateBeatFrequency(ws)
         IN  IF RLess(R(0), beatFreq) /\ RLess(beatFreq, R(2))
             THEN "Beating" ELSE "Superposition"

detectPhenomenon(ws) ==
    IF Len(ws) = 0 THEN "No waves"
    ELSE IF Len(ws) = 1 THEN "Single wave"
    ELSE LET beatFreq == calculateBeatFrequency(ws)
         IN  IF RLess(R(0), beatFreq) /\ RLess(beatFreq, R(2))
             THEN "Beating"
             ELSE IF hasResonance(FrequenciesOf(ws)) THEN "Resonance"
             ELSE "Superposition"

\* std::max(a, b)
RMax(a, b) == IF RLess(a, b) THEN b ELSE a

\* the loop of getMaxAmplitude over the waves from index k on
RECURSIVE MaxAmplitudeFrom(_, _, _)
MaxAmplitudeFrom(ws, k, maxAmp) ==
    IF k > Len(ws) THEN maxAmp
    ELSE MaxAmplitudeFrom(ws, k + 1, RMax(maxAmp, getAmplitude(ws[k])))

getMaxAmplitude(ws) == MaxAmplitudeFrom(ws, 1, R(0))

\* the loop of getDominantFrequency over the waves from index k on
RECURSIVE DominantFrom(_, _, _, _)
DominantFrom(ws, k, maxAmp, dominantFreq) ==
    IF k > Len(ws) THEN dominantFreq
    ELSE IF RLess(maxAmp, getAmplitude(ws[k]))
         THEN DominantFrom(ws, k + 1, getAmplitude(ws[k]), getFrequency(ws[k]))
         ELSE DominantFrom(ws, k + 1, maxAmp, dominantFreq)

getDominantFrequency(ws) ==
    IF ws = <<>> THEN R(0) ELSE DominantFrom(ws, 1, R(0), R(0))

\* a member that sorts waves_ itself by frequency before it reads it
ReaderThatSorts(name, result) ==
    LET n == Len(waves)
        orders == {p \in [1 .. n -> 1 .. n] :
                      \A i, j \in 1 .. n : i # j => p[i] # p[j]}
        p == CHOOSE q \in orders :
                 \A i \in 1 .. n - 1 :
                     RLeq(waves[q[i]].frequency, waves[q[i + 1]].frequency)
    IN  /\ pc' = name
        /\ arg' = [count |-> Len(waves)]
        /\ out' = result
        /\ waves' = [i \in 1 .. n |-> waves[p[i]]]
        /\ UNCHANGED <<fourier, window>>

\* a const member that takes no argument
Reader(name, result) ==
    /\ pc' = name
    /\ arg' = [count |-> Len(waves)]
    /\ out' = result
    /\ UNCHANGED <<waves, fourier, window>>

CallCalculateBeatFrequency ==
    Reader("calculateBeatFrequency", calculateBeatFrequency(waves))

CallDetectPhenomenon == Reader("detectPhenomenon", detectPhenomenon(waves))

CallGetMaxAmplitude == Reader("getMaxAmplitude", getMaxAmplitude(waves))

CallGetDominantFrequency ==
    Reader("getDominantFrequency", getDominantFrequency(waves))

NextEngine ==
    \/ CallAddWave
    \/ CallRemoveWave
    \/ CallClearWaves
    \/ CallGetWave
    \/ CallCalculateBeatFrequency
    \/ CallDetectPhenomenon
    \/ CallGetMaxAmplitude
    \/ CallGetDominantFrequency

SpecEngine == InitEngine /\ [][NextEngine]_vars

-----------------------------------------------------------------------------
(* The collection *)

\* C14: removeWave(i) with i >= n leaves the collection as it is and
\* getWave(i) with i >= n returns null, for every n >= 0; neither call does
\* anything else.
C14_OutOfRange ==
    [][/\ (pc' = "removeWave" /\ arg'.index >= Len(waves)) => waves' = waves
       /\ (pc' = "getWave" /\ arg'.index >= Len(waves)) =>
              out' = Null /\ waves' = waves]_vars

\* a removal past the end of a collection of two, which still has two
C14_Witness ==
    /\ pc = "removeWave"
    /\ arg.count = 2
    /\ arg.index >= arg.count
    /\ Len(waves) = 2

\* C15: addWave(w) puts w at index count and leaves the indices below
\* unchanged; removeWave(i) with i < count deletes the wave at index i,
\* shifts every wave above it down by one and leaves those below unchanged;
\* clearWaves leaves count 0; getWave(i) with i < count returns the wave at
\* index i.
C15_InsertionOrder ==
    [][/\ pc' = "addWave" =>
              /\ Len(waves') = Len(waves) + 1
              /\ waves'[Len(waves) + 1] = arg'.wave
              /\ \A j \in 1 .. Len(waves) : waves'[j] = waves[j]
       /\ (pc' = "removeWave" /\ arg'.index < Len(waves)) =>
              /\ Len(waves') = Len(waves) - 1
              /\ \A j \in 1 .. Len(waves) - 1 :
                    waves'[j] = IF j <= arg'.index THEN waves[j]
                                ELSE waves[j + 1]
       /\ pc' = "clearWaves" => Len(waves') = 0
       /\ (pc' = "getWave" /\ arg'.index < Len(waves)) =>
              out' = waves[arg'.index + 1] /\ waves' = waves]_vars

\* the middle one of three waves removed, two different waves left
C15_Witness ==
    /\ pc = "removeWave"
    /\ arg.count = 3
    /\ arg.index = 1
    /\ Len(waves) = 2
    /\ waves[1] # waves[2]

-----------------------------------------------------------------------------
(* The readers of the collection *)

\* the place of the frequency of wave k among the frequencies in ascending
\* order (equal ones in insertion order)
Rank(ws, k) ==
    Cardinality({j \in 1 .. Len(ws) :
        \/ RLess(ws[j].frequency, ws[k].frequency)
        \/ ws[j].frequency = ws[k].frequency /\ j <= k})

\* the frequencies of the waves in ascending order
Ascended(ws) ==
    [p \in 1 .. Len(ws) |->
        ws[CHOOSE k \in 1 .. Len(ws) : Rank(ws, k) = p].frequency]

\* the strictly positive gaps between consecutive ascending frequencies
PositiveGaps(ws) ==
    {g \in {RSub(Ascended(ws)[p + 1], Ascended(ws)[p]) :
              p \in 1 .. Len(ws) - 1} : RLess(R(0), g)}

Least(S) == CHOOSE g \in S : \A h \in S : RLeq(g, h)

BeatOf(ws) == IF PositiveGaps(ws) = {} THEN R(0) ELSE Least(PositiveGaps(ws))

\* C17: calculateBeatFrequency returns the minimum strictly positive gap
\* between consecutive ascending frequencies, and 0 with fewer than two
\* waves or with all frequencies equal; 1.0 Hz and 1.1 Hz give 0.1 Hz.
C17_BeatFrequency ==
    pc = "calculateBeatFrequency" =>
        /\ out = BeatOf(waves)
        /\ Len(waves) < 2 => out = R(0)
        /\ (\A j, k \in 1 .. Len(waves) :
               waves[j].frequency = waves[k].frequency) => out = R(0)
        /\ (Len(waves) = 2 /\ waves[1].frequency = R(1)
                           /\ waves[2].frequency = Frac(11, 10)) =>
               out = Frac(1, 10)

\* three waves at 1.1, 1 and 1 Hz: the gap of 0 is passed over
C17_Witness ==
    /\ pc = "calculateBeatFrequency"
    /\ Len(waves) = 3
    /\ waves[1].frequency = Frac(11, 10)
    /\ waves[2].frequency = R(1)
    /\ waves[3].frequency = R(1)
    /\ out = Frac(1, 10)

Phenomena ==
    {"No waves", "Single wave", "Beating", "Resonance", "Superposition"}

\* C16: detectPhenomenon gives "No waves" for 0 waves, "Single wave" for 1,
\* otherwise "Beating" for a beat frequency strictly between 0 and 2 Hz,
\* otherwise "Resonance" when two waves differ by strictly less than 0.01 Hz
\* in frequency, otherwise "Superposition": the first rule that applies
\* wins, and the result is always one of the five strings.
C16_DecisionOrder ==
    pc = "detectPhenomenon" =>
        /\ out \in Phenomena
        /\ out = CASE Len(waves) = 0 -> "No waves"
                   [] Len(waves) = 1 -> "Single wave"
                   [] Len(waves) > 1 /\ RLess(R(0), BeatOf(waves))
                                     /\ RLess(BeatOf(waves), R(2)) -> "Beating"
                   [] Len(waves) > 1
                        /\ ~(RLess(R(0), BeatOf(waves))
                               /\ RLess(BeatOf(waves), R(2)))
                        /\ (\E j, k \in 1 .. Len(waves) :
                              /\ j # k
                              /\ RLess(RAbs(RSub(waves[j].frequency,
                                                 waves[k].frequency)),
                                       Frac(1, 100))) -> "Resonance"
                   [] OTHER -> "Superposition"

\* two waves of equal frequency next to one 0.1 Hz away: "Beating" wins
\* over "Resonance"
C16_Witness ==
    /\ pc = "detectPhenomenon"
    /\ \E j, k, l \in 1 .. Len(waves) :
          /\ j # k
          /\ waves[j].frequency = waves[k].frequency
          /\ RSub(waves[l].frequency, waves[j].frequency) = Frac(1, 10)
    /\ out = "Beating"

\* C28: for two or more waves detectPhenomenon returns "Resonance" only if
\* two waves have exactly equal frequencies: when some pair of frequencies
\* differs by a strictly positive amount below 0.01 Hz, the least positive
\* gap between consecutive ascending frequencies is below 0.01 Hz as well,
\* so "Beating" is returned and "Resonance" is not.
C28_ResonanceNeedsEqual ==
    (pc = "detectPhenomenon" /\ Len(waves) >= 2) =>
        LET Apart(j, k) == RAbs(RSub(waves[j].frequency, waves[k].frequency))
        IN  /\ out = "Resonance" =>
                   \E j, k \in 1 .. Len(waves) :
                       j # k /\ waves[j].frequency = waves[k].frequency
            /\ (\E j, k \in 1 .. Len(waves) :
                   /\ RLess(R(0), Apart(j, k))
                   /\ RLess(Apart(j, k), Frac(1, 100))) =>
                   /\ PositiveGaps(waves) # {}
                   /\ RLess(Least(PositiveGaps(waves)), Frac(1, 100))
                   /\ out = "Beating"

\* 1 Hz, 4 Hz, 1.005 Hz: the close pair is not adjacent in the collection
C28_Witness ==
    /\ pc = "detectPhenomenon"
    /\ Len(waves) = 3
    /\ waves[1].frequency = R(1)
    /\ waves[2].frequency = R(4)
    /\ waves[3].frequency = Frac(201, 200)
    /\ out = "Beating"

\* some wave of the largest amplitude, the earliest one
LargestWave(ws) ==
    CHOOSE k \in 1 .. Len(ws) :
        \A j \in 1 .. Len(ws) :
            /\ RLeq(ws[j].amplitude, ws[k].amplitude)
            /\ j < k => RLess(ws[j].amplitude, ws[k].amplitude)

\* C18: for a non-empty collection getDominantFrequency returns the
\* frequency, and getMaxAmplitude the amplitude, of the wave of largest
\* amplitude, the earliest one on ties, whatever the signs of the
\* amplitudes; for an empty collection getDominantFrequency returns 0.
C18_LargestAmplitude ==
    /\ (pc = "getMaxAmplitude" /\ waves # <<>>) =>
           out = waves[LargestWave(waves)].amplitude
    /\ (pc = "getDominantFrequency" /\ waves # <<>>) =>
           out = waves[LargestWave(waves)].frequency
    /\ (pc = "getDominantFrequency" /\ waves = <<>>) => out = R(0)

\* one wave of amplitude -2 at 4 Hz: the maximum amplitude read is 0
C18_NegativeOnly ==
    /\ pc = "getMaxAmplitude"
    /\ waves = <<SinusoidalWave(R(-2), R(4), R(0))>>
    /\ out = R(0)

-----------------------------------------------------------------------------
(* The time series.  Sines and cosines are exact for quarter turns only,   *)
(* so the sinusoids sampled here have whole frequencies and phases that    *)
(* are multiples of 90 degrees, and the sample rates are 1, 2 and 4 Hz.    *)
(* SquareWave is left out: its value at a zero of the sine hangs on the    *)
(* rounding of the argument.                                               *)

CosineWave(a, f, p) == Wave("cosine", a, f, p)

TriangularWave(a, f, p) == Wave("triangular", a, f, p)

SawtoothWave(a, f, p) == Wave("sawtooth", a, f, p)

\* arg - std::floor(arg), for arg = frequency_ * t + phase_ / 360.0
FractionalPart(wave, t) ==
    LET turn == RAdd(RMul(wave.frequency, t), RDiv(wave.phase, R(360)))
    IN  RSub(turn, R(Floor(turn)))

\* WaveFunction::evaluate of the four classes; x is not used by any of them.
\* evaluate is virtual and WaveType has CUSTOM for a class of the caller: the
\* "custom" wave is one that is constant in time and takes the value
\* profile[k] on k-1 <= x < k, and 0 elsewhere (a comparison with NaN is false).
evaluate(wave, x, t) ==
    LET turn == RAdd(RMul(wave.frequency, t), RDiv(wave.phase, R(360)))
        fractional_part == FractionalPart(wave, t)
    IN  CASE wave.type = "sinusoidal" ->
                RMul(wave.amplitude, Sin(turn.n, turn.d))
          [] wave.type = "cosine" ->
                RMul(wave.amplitude, Cos(turn.n, turn.d))
          [] wave.type = "triangular" ->
                IF RLess(fractional_part, Frac(1, 4))
                THEN RMul(RMul(wave.amplitude, R(4)), fractional_part)
                ELSE IF RLess(fractional_part, Frac(3, 4))
                THEN RMul(wave.amplitude,
                          RSub(R(2), RMul(R(4), fractional_part)))
                ELSE RMul(wave.amplitude,
                          RSub(RMul(R(4), fractional_part), R(4)))
          [] wave.type = "sawtooth" ->
                RMul(wave.amplitude,
                     RSub(RMul(R(2), fractional_part), R(1)))
          [] wave.type = "custom" ->
                LET inside == {k \in 1 .. Len(wave.profile) :
                                   RLeq(R(k - 1), x) /\ RLess(x, R(k))}
                IN  IF inside = {} THEN R(0)
                    ELSE wave.profile[CHOOSE k \in inside : TRUE]

\* the loop of evaluateSuperposition over the waves from index k on
RECURSIVE SuperpositionFrom(_, _, _, _, _)
SuperpositionFrom(ws, k, x, t, result) ==
    IF k > Len(ws) THEN result
    ELSE SuperpositionFrom(ws, k + 1, x, t,
                           RAdd(result, evaluate(ws[k], x, t)))

evaluateSuperposition(ws, x, t) == SuperpositionFrom(ws, 1, x, t, R(0))

\* static_cast<int>(r): truncation towards zero
Trunc(r) == IF r.n >= 0 THEN r.n \div r.d ELSE -((-r.n) \div r.d)

numSamples(duration, rate) == Trunc(RMul(duration, rate))

\* a series that starts one sample late
GenerateTimeSeriesLate(ws, duration, rate, position) ==
    LET dt == RDiv(R(1), rate)
    IN  [j \in 1 .. numSamples(duration, rate) |->
            evaluateSuperposition(ws, position, RMul(R(j), dt))]

\* sample i of the code is entry i + 1 here
generateTimeSeries(ws, duration, rate, position) ==
    LET dt == RDiv(R(1), rate)
    IN  [j \in 1 .. numSamples(duration, rate) |->
            evaluateSuperposition(ws, position, RMul(R(j - 1), dt))]

\* a difference that is multiplied by dt
VelocityTimesDt(amp, prev_amp, dt) == RMul(RSub(amp, prev_amp), dt)

\* vel = (amp - prev_amp) / dt
Velocity(amp, prev_amp, dt) == RDiv(RSub(amp, prev_amp), dt)

\* acc = (amp - 2 * prev_amp + prev_prev_amp) / (dt * dt)
Acceleration(amp, prev_amp, prev_prev_amp, dt) ==
    RDiv(RAdd(RSub(amp, RMul(R(2), prev_amp)), prev_prev_amp), RMul(dt, dt))

TimePoint(t, amp, vel, acc) ==
    [time |-> t, amplitude |-> amp, velocity |-> vel, acceleration |-> acc]

generateDetailedTimeSeries(ws, duration, rate, position) ==
    LET dt == RDiv(R(1), rate)
        at(i) == evaluateSuperposition(ws, position, RMul(R(i), dt))
    IN  [j \in 1 .. numSamples(duration, rate) |->
            LET i == j - 1
            IN  TimePoint(RMul(R(i), dt), at(i),
                    IF i > 0 THEN Velocity(at(i), at(i - 1), dt) ELSE R(0),
                    IF i > 1
                    THEN Acceleration(at(i), at(i - 1), at(i - 2), dt)
                    ELSE R(0))]

MaxSeriesWaves == 2

MaxHalfSeconds == 3

SeriesWaves ==
    {SinusoidalWave(R(2), R(1), R(0)), SinusoidalWave(R(1), R(3), R(90)),
     CosineWave(R(1), R(2), R(90)), CosineWave(R(-2), R(1), R(0)),
     TriangularWave(R(2), Frac(3, 2), R(30)),
     SawtoothWave(R(-1), R(1), R(90))}

Durations == {Frac(h, 2) : h \in -1 .. MaxHalfSeconds}

SeriesRates == {R(1), R(2), R(4)}

Positions == {R(0), R(1)}

\* an engine to which up to MaxSeriesWaves waves have been added
InitSeries ==
    /\ pc = "engine"
    /\ signal = <<>>
    /\ sampleRate = R(0)
    /\ spectrumArg = <<>>
    /\ ret = <<>>
    /\ filt = NoFilter
    /\ analysis = NoSpectrum
    /\ harmonics = <<>>
    /\ arg = NoArg
    /\ waves \in UNION {SeqsOfLen(SeriesWaves, n) : n \in 0 .. MaxSeriesWaves}
    /\ out = NoResult
    /\ window = NoWindow

\* data.reserve(numSamples) throws std::length_error when numSamples,
\* converted to size_t, is beyond max_size(): that is when it is negative
Series(name) ==
    \E duration \in Durations, rate \in SeriesRates, position \in Positions :
        /\ arg' = [duration |-> duration, sampleRate |-> rate,
                   position |-> position]
        /\ IF numSamples(duration, rate) < 0
           THEN pc' = "length_error" /\ out' = NoResult
           ELSE /\ pc' = name
                /\ out' = IF name = "generateTimeSeries"
                          THEN generateTimeSeries(waves, duration, rate,
                                                  position)
                          ELSE generateDetailedTimeSeries(waves, duration,
                                                          rate, position)
        /\ UNCHANGED <<waves, fourier, window>>

CallGenerateTimeSeries ==
    /\ pc = "engine"
    /\ Series("generateTimeSeries")

CallGenerateDetailedTimeSeries ==
    /\ pc = "engine"
    /\ Series("generateDetailedTimeSeries")

NextSeries == CallGenerateTimeSeries \/ CallGenerateDetailedTimeSeries

SpecSeries == InitSeries /\ [][NextSeries]_vars

\* the sum of evaluate over the waves at the indices in S
RECURSIVE SumOfWaves(_, _, _, _)
SumOfWaves(ws, S, x, t) ==
    IF S = {} THEN R(0)
    ELSE LET k == CHOOSE k \in S : TRUE
         IN  RAdd(evaluate(ws[k], x, t), SumOfWaves(ws, S \ {k}, x, t))

\* the largest integer that is not above r
FloorOf(r) == CHOOSE m \in -100 .. 100 : RLeq(R(m), r) /\ RLess(r, R(m + 1))

\* C19: generateTimeSeries(duration, sampleRate, position) returns
\* floor(duration * sampleRate) samples when duration * sampleRate >= 0, and
\* sample i is the sum of evaluate(position, i / sampleRate) over the waves
\* of the collection, which is 0 for the empty collection.
C19_TimeSeries ==
    (pc = "generateTimeSeries"
       /\ RLeq(R(0), RMul(arg.duration, arg.sampleRate))) =>
        /\ Len(out) = FloorOf(RMul(arg.duration, arg.sampleRate))
        /\ \A i \in 0 .. Len(out) - 1 :
              /\ out[i + 1] = SumOfWaves(waves, 1 .. Len(waves), arg.position,
                                         RDiv(R(i), arg.sampleRate))
              /\ waves = <<>> => out[i + 1] = R(0)

\* 1.5 s at 4 Hz of two waves: six samples, not all of them 0
C19_Witness ==
    /\ pc = "generateTimeSeries"
    /\ Len(waves) = 2
    /\ arg.duration = Frac(3, 2)
    /\ arg.sampleRate = R(4)
    /\ Len(out) = 6
    /\ \E i \in 1 .. 6 : out[i] # R(0)

\* C20: generateDetailedTimeSeries returns as many points as
\* generateTimeSeries, with the same amplitudes and time_i = i / sampleRate;
\* velocity_0 = 0 and velocity_i = (a_i - a_(i-1)) * sampleRate for i >= 1;
\* acceleration_0 = acceleration_1 = 0 and acceleration_i =
\* (a_i - 2 * a_(i-1) + a_(i-2)) * sampleRate^2 for i >= 2.
C20_DetailedTimeSeries ==
    pc = "generateDetailedTimeSeries" =>
        LET a == generateTimeSeries(waves, arg.duration, arg.sampleRate,
                                    arg.position)
            rate == arg.sampleRate
        IN  /\ Len(out) = Len(a)
            /\ \A j \in 1 .. Len(out) :
                  /\ out[j].amplitude = a[j]
                  /\ out[j].time = RDiv(R(j - 1), rate)
                  /\ out[j].velocity =
                        IF j = 1 THEN R(0)
                        ELSE RMul(RSub(a[j], a[j - 1]), rate)
                  /\ out[j].acceleration =
                        IF j <= 2 THEN R(0)
                        ELSE RMul(RAdd(RSub(a[j], RMul(R(2), a[j - 1])),
                                       a[j - 2]),
                                  RMul(rate, rate))

\* a point past the second one with a velocity and an acceleration other
\* than 0, sampled at 2 Hz
C20_Witness ==
    /\ pc = "generateDetailedTimeSeries"
    /\ arg.sampleRate = R(2)
    /\ Len(out) >= 3
    /\ out[3].velocity # R(0)
    /\ out[3].acceleration # R(0)

-----------------------------------------------------------------------------
(* InterferenceCalculator: the classification of an interference *)

MaxAmplitude == 2

\* the amplitudes of the two waves, and the result amplitudes: the halves
\* up to twice the largest amplitude, and two values next to a boundary
Amplitudes == {R(a) : a \in -1 .. MaxAmplitude}

ResultAmplitudes ==
    {Frac(h, 2) : h \in 0 .. 4 * MaxAmplitude} \cup {Frac(39, 10), Frac(1, 10)}

\* the default tolerance of classifyInterference
DefaultTolerance == Frac(1, 10)

Tolerances == {R(0), DefaultTolerance, Half}

\* a classification that looks for the destructive case first
ClassifyDestructiveFirst(amplitude1, amplitude2, resultAmplitude, tolerance) ==
    LET maxPossible == RAdd(amplitude1, amplitude2)
        minPossible == RAbs(RSub(amplitude1, amplitude2))
    IN  IF RLeq(resultAmplitude, RAdd(minPossible, tolerance))
        THEN "DESTRUCTIVE"
        ELSE IF RLeq(RSub(maxPossible, tolerance), resultAmplitude)
        THEN "CONSTRUCTIVE"
        ELSE "PARTIAL"

classifyInterference(amplitude1, amplitude2, resultAmplitude, tolerance) ==
    LET maxPossible == RAdd(amplitude1, amplitude2)
        minPossible == RAbs(RSub(amplitude1, amplitude2))
    IN  IF RLeq(RSub(maxPossible, tolerance), resultAmplitude)
        THEN "CONSTRUCTIVE"
        ELSE IF RLeq(resultAmplitude, RAdd(minPossible, tolerance))
        THEN "DESTRUCTIVE"
        ELSE "PARTIAL"

InitClassify ==
    /\ pc = "amplitudes"
    /\ signal = <<>>
    /\ sampleRate = R(0)
    /\ spectrumArg = <<>>
    /\ ret = <<>>
    /\ filt = NoFilter
    /\ analysis = NoSpectrum
    /\ harmonics = <<>>
    /\ arg \in {[amplitude1 |-> a1, amplitude2 |-> a2, resultAmplitude |-> r,
                 tolerance |-> tol] :
                   a1 \in Amplitudes, a2 \in Amplitudes,
                   r \in ResultAmplitudes, tol \in Tolerances}
    /\ waves = <<>>
    /\ out = NoResult
    /\ window = NoWindow

CallClassifyInterference ==
    /\ pc = "amplitudes"
    /\ pc' = "classifyInterference"
    /\ out' = classifyInterference(arg.amplitude1, arg.amplitude2,
                                   arg.resultAmplitude, arg.tolerance)
    /\ UNCHANGED <<fourier, arg, waves, window>>

NextClassify == CallClassifyInterference

SpecClassify == InitClassify /\ [][NextClassify]_vars

\* C21: classifyInterference(amp1, amp2, r, tol) is CONSTRUCTIVE when
\* r >= (amp1 + amp2) - tol, otherwise DESTRUCTIVE when
\* r <= |amp1 - amp2| + tol, otherwise PARTIAL; it is never NO_INTERFERENCE;
\* with amp1 = amp2 = 2 and the default tolerance, r = 4 is CONSTRUCTIVE,
\* r = 0 DESTRUCTIVE and r = 2.5 PARTIAL.
C21_Classification ==
    pc = "classifyInterference" =>
        LET high == RLeq(RSub(RAdd(arg.amplitude1, arg.amplitude2),
                              arg.tolerance), arg.resultAmplitude)
            low == RLeq(arg.resultAmplitude,
                        RAdd(RAbs(RSub(arg.amplitude1, arg.amplitude2)),
                             arg.tolerance))
            twos == /\ arg.amplitude1 = R(2) /\ arg.amplitude2 = R(2)
                    /\ arg.tolerance = Frac(1, 10)
        IN  /\ high => out = "CONSTRUCTIVE"
            /\ (~high /\ low) => out = "DESTRUCTIVE"
            /\ (~high /\ ~low) => out = "PARTIAL"
            /\ out # "NO_INTERFERENCE"
            /\ (twos /\ arg.resultAmplitude = R(4)) => out = "CONSTRUCTIVE"
            /\ (twos /\ arg.resultAmplitude = R(0)) => out = "DESTRUCTIVE"
            /\ (twos /\ arg.resultAmplitude = Frac(5, 2)) => out = "PARTIAL"

\* amp2 = 0: the result 2 is at both bounds and is CONSTRUCTIVE
C21_Witness ==
    /\ pc = "classifyInterference"
    /\ arg.amplitude1 = R(2)
    /\ arg.amplitude2 = R(0)
    /\ arg.resultAmplitude = R(2)
    /\ out = "CONSTRUCTIVE"

----------------------------------------------------------------------------
(* InterferenceCalculator: sampling the sum of the waves along a length    *)

getPhase(wave) == wave.phase

\* a wave of the caller's own class (WaveType::CUSTOM) with a spatial profile
CustomWave(profile) ==
    [type |-> "custom", amplitude |-> R(1), frequency |-> R(1),
     phase |-> R(0), profile |-> profile]

\* the loop of calculateTotalAmplitude over the waves from index k on
RECURSIVE TotalAmplitudeFrom(_, _, _, _, _)
TotalAmplitudeFrom(ws, k, position, time, total) ==
    IF k > Len(ws) THEN total
    ELSE TotalAmplitudeFrom(ws, k + 1, position, time,
                            RAdd(total, evaluate(ws[k], position, time)))

calculateTotalAmplitude(ws, position, time) ==
    TotalAmplitudeFrom(ws, 1, position, time, R(0))

\* double dx = length / (numPoints - 1);
SpacingOf(length, numPoints) == RDiv(length, R(numPoints - 1))

\* double x = i * dx; for i = 0 .. numPoints - 1
SampledPositions(length, numPoints) ==
    [j \in 1 .. numPoints |-> RMul(R(j - 1), SpacingOf(length, numPoints))]

\* the loop of findLocalExtrema from index i (of 0 .. size - 1) on
RECURSIVE ExtremaFrom(_, _, _, _)
ExtremaFrom(data, findMaxima, i, extrema) ==
    IF ~(i < Len(data) - 1) THEN extrema
    ELSE LET isExtremum ==
                 IF findMaxima
                 THEN /\ RLess(data[i], data[i + 1])
                      /\ RLess(data[i + 2], data[i + 1])
                 ELSE /\ RLess(data[i + 1], data[i])
                      /\ RLess(data[i + 1], data[i + 2])
         IN  ExtremaFrom(data, findMaxima, i + 1,
                         IF isExtremum THEN Append(extrema, i) ELSE extrema)

\* the indices (from 0) of the strict local maxima or minima
findLocalExtrema(data, findMaxima) ==
    IF Len(data) < 3 THEN <<>> ELSE ExtremaFrom(data, findMaxima, 1, <<>>)

InterferenceNode(position, amplitude, type) ==
    [position |-> position, amplitude |-> amplitude, type |-> type]

\* `amplitudes[idx] <= threshold`, the test a minimum passes to be a NODE
NodeTest(amplitude, threshold) == RLeq(amplitude, threshold)

AntinodeTest(amplitude, threshold) == RLeq(threshold, amplitude)

\* one of the two filtering loops of findInterferenceNodes, from the k-th
\* extremum on
RECURSIVE NodesFrom(_, _, _, _, _, _, _)
NodesFrom(extrema, k, amplitudes, dx, threshold, type, nodes) ==
    IF k > Len(extrema) THEN nodes
    ELSE LET idx == extrema[k]
             passes == /\ idx >= 0
                       /\ idx < Len(amplitudes)
                       /\ IF type = "NODE"
                          THEN NodeTest(amplitudes[idx + 1], threshold)
                          ELSE AntinodeTest(amplitudes[idx + 1], threshold)
         IN  NodesFrom(extrema, k + 1, amplitudes, dx, threshold, type,
                       IF passes
                       THEN Append(nodes,
                                   InterferenceNode(RMul(R(idx), dx),
                                                    amplitudes[idx + 1], type))
                       ELSE nodes)

\* findInterferenceNodes for numPoints >= 0: the nodes, then the antinodes
findInterferenceNodes(ws, time, length, numPoints, threshold) ==
    LET dx == SpacingOf(length, numPoints)
        amplitudes ==
            [j \in 1 .. numPoints |->
                RAbs(calculateTotalAmplitude(ws, RMul(R(j - 1), dx), time))]
        minima == findLocalExtrema(amplitudes, FALSE)
        maxima == findLocalExtrema(amplitudes, TRUE)
    IN  NodesFrom(maxima, 1, amplitudes, dx, threshold, "ANTINODE",
                  NodesFrom(minima, 1, amplitudes, dx, threshold, "NODE",
                            <<>>))

\* double threshold = 0.1
DefaultNodeThreshold == Frac(1, 10)

\* result.nodePositions or result.antinodePositions, in the order of nodes
RECURSIVE PositionsOf(_, _)
PositionsOf(nodes, type) ==
    IF nodes = <<>> THEN <<>>
    ELSE IF Head(nodes).type = type
    THEN <<Head(nodes).position>> \o PositionsOf(Tail(nodes), type)
    ELSE PositionsOf(Tail(nodes), type)

\* `diff += 360.0` and `diff -= 360.0`
Raised(diff) == RAdd(diff, R(360))

LoweredByHalf(diff) == RSub(diff, R(180))

Lowered(diff) == RSub(diff, R(360))

RECURSIVE WhileNegative(_)
WhileNegative(diff) ==
    IF RLess(diff, R(0)) THEN WhileNegative(Raised(diff)) ELSE diff

RECURSIVE WhileLarge(_)
WhileLarge(diff) ==
    IF RLeq(R(360), diff) THEN WhileLarge(Lowered(diff)) ELSE diff

calculatePhaseShift(wave1, wave2) ==
    WhileLarge(WhileNegative(RSub(getPhase(wave2), getPhase(wave1))))

\* InterferenceCalculator::calculateBeatFrequency(freq1, freq2)
BeatFrequencyOf(freq1, freq2) == RAbs(RSub(freq1, freq2))

\* double frequencyTolerance = 0.01
DefaultFrequencyTolerance == Frac(1, 100)

ResonanceIgnoringTolerance(ws, frequencyTolerance) ==
    /\ ~(Len(ws) < 2)
    /\ \E i \in 1 .. Len(ws) : \E j \in i + 1 .. Len(ws) :
           RLeq(RAbs(RSub(getFrequency(ws[i]), getFrequency(ws[j]))),
                DefaultFrequencyTolerance)

\* the two loops return true at the first pair within the tolerance
detectResonance(ws, frequencyTolerance) ==
    /\ ~(Len(ws) < 2)
    /\ \E i \in 1 .. Len(ws) : \E j \in i + 1 .. Len(ws) :
           RLeq(RAbs(RSub(getFrequency(ws[i]), getFrequency(ws[j]))),
                frequencyTolerance)

\* std::minmax_element over a sequence that is not empty
RECURSIVE MinElement(_)
MinElement(data) ==
    IF Len(data) = 1 THEN data[1]
    ELSE LET rest == MinElement(Tail(data))
         IN  IF RLess(rest, Head(data)) THEN rest ELSE Head(data)

RECURSIVE MaxElement(_)
MaxElement(data) ==
    IF Len(data) = 1 THEN data[1]
    ELSE LET rest == MaxElement(Tail(data))
         IN  IF RLess(Head(data), rest) THEN rest ELSE Head(data)

\* std::max(std::abs(*minmax.first), std::abs(*minmax.second)). On an empty
\* sequence both iterators are end(): reading them is undefined, and what a
\* build reads there, when it reads anything, is an indeterminate double.
PeakAmplitudes(amplitudes) ==
    IF amplitudes = <<>> THEN {RAbs(g) : g \in Indeterminate}
    ELSE {RMax(RAbs(MinElement(amplitudes)), RAbs(MaxElement(amplitudes)))}

\* what a call that does not return leaves
Thrown(what) == [pc |-> what, out |-> NoResult]

\* calculateTwoWaveInterference: the outcomes of the call, each the place
\* the call ends at and its result. The result is kept with the locals
\* positions, amplitudes and dx of the call; description is text made of the
\* other fields and is left out. reserve(numPoints) throws for a negative
\* numPoints; for numPoints = 0 the read of *minmax.first either faults or
\* yields an indeterminate value.
calculateTwoWaveInterference(wave1, wave2, time, length, numPoints) ==
    IF numPoints < 0 THEN {Thrown("length_error")}
    ELSE
    LET dx == SpacingOf(length, numPoints)
        positions == SampledPositions(length, numPoints)
        amplitudes == [j \in 1 .. numPoints |->
                          RAdd(evaluate(wave1, positions[j], time),
                               evaluate(wave2, positions[j], time))]
        nodes == findInterferenceNodes(<<wave1, wave2>>, time, length,
                                       numPoints, DefaultNodeThreshold)
    IN  (IF amplitudes = <<>> THEN {Thrown("crashed")} ELSE {})
        \cup
        {[pc |-> "calculateTwoWaveInterference",
          out |-> [type |-> classifyInterference(getAmplitude(wave1),
                                                 getAmplitude(wave2),
                                                 peak, DefaultTolerance),
                   amplitude |-> peak,
                   phase |-> calculatePhaseShift(wave1, wave2),
                   nodePositions |-> PositionsOf(nodes, "NODE"),
                   antinodePositions |-> PositionsOf(nodes, "ANTINODE"),
                   beatFrequency |-> BeatFrequencyOf(getFrequency(wave1),
                                                     getFrequency(wave2)),
                   positions |-> positions,
                   amplitudes |-> amplitudes,
                   dx |-> dx]] : peak \in PeakAmplitudes(amplitudes)}

\* calculateMultiWaveInterference: `InterferenceResult result;` leaves type,
\* amplitude, phase and beatFrequency indeterminate; the early returns set
\* type (and amplitude), the full path everything but phase.
calculateMultiWaveInterference(ws, time, length, numPoints) ==
    IF Len(ws) = 0
    THEN {[pc |-> "calculateMultiWaveInterference",
           out |-> [type |-> "NO_INTERFERENCE", amplitude |-> g[1],
                    phase |-> g[2], nodePositions |-> <<>>,
                    antinodePositions |-> <<>>, beatFrequency |-> g[3]]] :
              g \in SeqsOfLen(Indeterminate, 3)}
    ELSE IF Len(ws) = 1
    THEN {[pc |-> "calculateMultiWaveInterference",
           out |-> [type |-> "NO_INTERFERENCE",
                    amplitude |-> getAmplitude(ws[1]),
                    phase |-> g[1], nodePositions |-> <<>>,
                    antinodePositions |-> <<>>, beatFrequency |-> g[2]]] :
              g \in SeqsOfLen(Indeterminate, 2)}
    ELSE IF numPoints < 0 THEN {Thrown("length_error")}
    ELSE
    LET dx == SpacingOf(length, numPoints)
        amplitudes ==
            [j \in 1 .. numPoints |->
                calculateTotalAmplitude(ws, RMul(R(j - 1), dx), time)]
        nodes == findInterferenceNodes(ws, time, length, numPoints,
                                       DefaultNodeThreshold)
        beatFrequency == BeatFrequencyOf(getFrequency(ws[1]),
                                         getFrequency(ws[2]))
    IN  (IF amplitudes = <<>> THEN {Thrown("crashed")} ELSE {})
        \cup
        {[pc |-> "calculateMultiWaveInterference",
          out |-> [type |-> IF detectResonance(ws, DefaultFrequencyTolerance)
                            THEN "CONSTRUCTIVE" ELSE "PARTIAL",
                   amplitude |-> peak,
                   phase |-> g,
                   nodePositions |-> PositionsOf(nodes, "NODE"),
                   antinodePositions |-> PositionsOf(nodes, "ANTINODE"),
                   beatFrequency |-> beatFrequency,
                   amplitudes |-> amplitudes,
                   dx |-> dx]] :
             peak \in PeakAmplitudes(amplitudes), g \in Indeterminate}

(* Inputs of the sampling *)

MaxPoints == 4

PointCounts == -1 .. MaxPoints

Lengths == {R(2), R(3)}

NodeThresholds == {DefaultNodeThreshold, R(1), R(2)}

Profiles == SeqsOfLen({R(0), R(1)}, MaxPoints)

\* waves whose value at time 0 is 0, 1 and -1 at every position
Steady == {SinusoidalWave(R(1), R(1), R(0)), CosineWave(R(1), R(1), R(0)),
           SinusoidalWave(R(1), R(2), R(270))}

WaveLists ==
    {<<>>} \cup {<<w>> : w \in Steady}
           \cup {<<CustomWave(p), w>> : p \in Profiles, w \in Steady}
           \cup {<<CustomWave(p), w, w>> :
                    p \in {[j \in 1 .. MaxPoints |-> R(j % 2)]}, w \in Steady}

InitInterference ==
    /\ pc = "waves"
    /\ signal = <<>>
    /\ sampleRate = R(0)
    /\ spectrumArg = <<>>
    /\ ret = <<>>
    /\ filt = NoFilter
    /\ analysis = NoSpectrum
    /\ harmonics = <<>>
    /\ arg \in {[waves |-> ws, time |-> R(0), length |-> l, numPoints |-> n,
                 threshold |-> th] :
                   ws \in WaveLists, l \in Lengths, n \in PointCounts,
                   th \in NodeThresholds}
    /\ waves = <<>>
    /\ out = NoResult
    /\ window = NoWindow

CallCalculateTwoWaveInterference ==
    /\ pc = "waves"
    /\ Len(arg.waves) = 2
    /\ \E outcome \in calculateTwoWaveInterference(
                          arg.waves[1], arg.waves[2], arg.time, arg.length,
                          arg.numPoints) :
           /\ pc' = outcome.pc
           /\ out' = outcome.out
    /\ UNCHANGED <<fourier, arg, waves, window>>

CallCalculateMultiWaveInterference ==
    /\ pc = "waves"
    /\ \E outcome \in calculateMultiWaveInterference(
                          arg.waves, arg.time, arg.length, arg.numPoints) :
           /\ pc' = outcome.pc
           /\ out' = outcome.out
    /\ UNCHANGED <<fourier, arg, waves, window>>

\* amplitudes.reserve(numPoints) throws for a negative numPoints
CallFindInterferenceNodes ==
    /\ pc = "waves"
    /\ IF arg.numPoints < 0
       THEN pc' = "length_error" /\ out' = NoResult
       ELSE /\ pc' = "findInterferenceNodes"
            /\ out' = findInterferenceNodes(arg.waves, arg.time, arg.length,
                                            arg.numPoints, arg.threshold)
    /\ UNCHANGED <<fourier, arg, waves, window>>

NextInterference ==
    \/ CallCalculateTwoWaveInterference
    \/ CallCalculateMultiWaveInterference
    \/ CallFindInterferenceNodes

SpecInterference == InitInterference /\ [][NextInterference]_vars

\* C22: calculateTwoWaveInterference samples at numPoints evenly spaced
\* positions that all lie in [0, length): the first is 0, every one of them,
\* the last included, is strictly below length, and so is every node and
\* antinode position of the result.
C22_HalfOpen ==
    pc = "calculateTwoWaveInterference" =>
        LET positions == out.positions
            Inside(x) == RLeq(R(0), x) /\ RLess(x, arg.length)
        IN  /\ Len(positions) = arg.numPoints
            /\ arg.numPoints >= 1 => positions[1] = R(0)
            /\ \A j \in 1 .. Len(positions) - 1 :
                   RSub(positions[j + 1], positions[j])
                       = RSub(positions[2], positions[1])
            /\ \A j \in DOMAIN positions : Inside(positions[j])
            /\ \A j \in DOMAIN out.nodePositions :
                   Inside(out.nodePositions[j])
            /\ \A j \in DOMAIN out.antinodePositions :
                   Inside(out.antinodePositions[j])

\* three points over the length 2 are sampled at 0, 1 and 2
C22_LastAtLength ==
    /\ pc = "calculateTwoWaveInterference"
    /\ arg.numPoints = 3
    /\ arg.length = R(2)
    /\ out.positions = <<R(0), R(1), R(2)>>

C27_NoFault ==
    (/\ pc \in {"calculateTwoWaveInterference",
                "calculateMultiWaveInterference", "crashed", "length_error"}
     /\ Len(arg.waves) >= 2
     /\ arg.numPoints >= 0) =>
        IF pc \in {"crashed", "length_error"} THEN FALSE
        ELSE /\ IsFinite(out.dx)
             /\ out.amplitudes # <<>>

\* numPoints = 0: the read of the minimum of no samples faulted
C27_EmptySamples ==
    /\ pc = "crashed"
    /\ arg.numPoints = 0
    /\ Len(arg.waves) >= 2

----------------------------------------------------------------------------
(* calculatePhaseShift, one step of its loops at a time: out is diff       *)

MaxEighths == 18

\* phases in degrees, in eighths of a turn on both sides of 0
Phases == {R(45 * k) : k \in -MaxEighths .. MaxEighths}

InitPhase ==
    /\ pc = "phases"
    /\ signal = <<>>
    /\ sampleRate = R(0)
    /\ spectrumArg = <<>>
    /\ ret = <<>>
    /\ filt = NoFilter
    /\ analysis = NoSpectrum
    /\ harmonics = <<>>
    /\ arg \in {[wave1 |-> SinusoidalWave(R(1), R(1), p1),
                 wave2 |-> SinusoidalWave(R(1), R(1), p2)] :
                   p1 \in Phases, p2 \in Phases}
    /\ waves = <<>>
    /\ out = NoResult
    /\ window = NoWindow

\* double diff = phase2 - phase1;
EnterCalculatePhaseShift ==
    /\ pc = "phases"
    /\ pc' = "whileNegative"
    /\ out' = RSub(getPhase(arg.wave2), getPhase(arg.wave1))
    /\ UNCHANGED <<fourier, arg, waves, window>>

\* while (diff < 0) diff += 360.0;
AddTurn ==
    /\ pc = "whileNegative"
    /\ RLess(out, R(0))
    /\ out' = Raised(out)
    /\ UNCHANGED <<pc, fourier, arg, waves, window>>

LeaveWhileNegative ==
    /\ pc = "whileNegative"
    /\ ~RLess(out, R(0))
    /\ pc' = "whileLarge"
    /\ UNCHANGED <<out, fourier, arg, waves, window>>

\* while (diff >= 360.0) diff -= 360.0;
SubtractTurn ==
    /\ pc = "whileLarge"
    /\ RLeq(R(360), out)
    /\ out' = Lowered(out)
    /\ UNCHANGED <<pc, fourier, arg, waves, window>>

\* return diff;
ReturnPhaseShift ==
    /\ pc = "whileLarge"
    /\ ~RLeq(R(360), out)
    /\ pc' = "calculatePhaseShift"
    /\ UNCHANGED <<out, fourier, arg, waves, window>>

NextPhase ==
    \/ EnterCalculatePhaseShift
    \/ AddTurn
    \/ LeaveWhileNegative
    \/ SubtractTurn
    \/ ReturnPhaseShift

SpecPhase == InitPhase /\ [][NextPhase]_vars

\* the call is synchronous: a step that can be taken is taken
FairSpecPhase == SpecPhase /\ WF_vars(NextPhase)

\* C24: the relative phase of calculatePhaseShift, which is the phase that
\* calculateTwoWaveInterference reports, is in [0, 360) and congruent to
\* phase2 - phase1 modulo 360, for negative phases and phases of 360 or more
\* as well; the two loops end for every pair of phases.
C24_PhaseShift ==
    /\ [](pc = "calculatePhaseShift" =>
            /\ RLeq(R(0), out)
            /\ RLess(out, R(360))
            /\ \E k \in -MaxEighths .. MaxEighths :
                   out = RAdd(RSub(arg.wave2.phase, arg.wave1.phase),
                              R(360 * k))
            /\ out = calculatePhaseShift(arg.wave1, arg.wave2))
    /\ <>(pc = "calculatePhaseShift")

\* phase1 = 810 and phase2 = -45: -855 is raised three times, to 225
C24_Witness ==
    /\ pc = "calculatePhaseShift"
    /\ arg.wave1.phase = R(810)
    /\ arg.wave2.phase = R(-45)
    /\ out = R(225)

----------------------------------------------------------------------------
(* detectResonance on lists of waves                                       *)

MaxResonant == 3

ResonantFrequencies == {R(1), Frac(101, 100), Frac(51, 50), R(2)}

ResonantLists ==
    UNION {SeqsOfLen({SinusoidalWave(R(1), f, R(0)) :
                          f \in ResonantFrequencies}, n) :
              n \in 0 .. MaxResonant}

FrequencyTolerances == {R(0), DefaultFrequencyTolerance, Half}

InitResonance ==
    /\ pc = "listed waves"
    /\ signal = <<>>
    /\ sampleRate = R(0)
    /\ spectrumArg = <<>>
    /\ ret = <<>>
    /\ filt = NoFilter
    /\ analysis = NoSpectrum
    /\ harmonics = <<>>
    /\ arg \in {[waves |-> ws, frequencyTolerance |-> tol] :
                   ws \in ResonantLists, tol \in FrequencyTolerances}
    /\ waves = <<>>
    /\ out = NoResult
    /\ window = NoWindow

CallDetectResonance ==
    /\ pc = "listed waves"
    /\ pc' = "detectResonance"
    /\ out' = detectResonance(arg.waves, arg.frequencyTolerance)
    /\ UNCHANGED <<fourier, arg, waves, window>>

NextResonance == CallDetectResonance

SpecResonance == InitResonance /\ [][NextResonance]_vars

\* C25: detectResonance(waves, tol) is true exactly when two distinct waves
\* have |f_i - f_j| <= tol, the boundary included, and false for zero or one
\* wave.
C25_Resonance ==
    pc = "detectResonance" =>
        LET ws == arg.waves
            near == {pair \in (DOMAIN ws) \X (DOMAIN ws) :
                        /\ pair[1] # pair[2]
                        /\ RLeq(RAbs(RSub(ws[pair[1]].frequency,
                                          ws[pair[2]].frequency)),
                                arg.frequencyTolerance)}
        IN  /\ out = (near # {})
            /\ Len(ws) <= 1 => out = FALSE

\* 1 Hz, 2 Hz and 1.01 Hz with the tolerance 0.01: only the first and the
\* last are within the tolerance, and exactly at it
C25_Witness ==
    /\ pc = "detectResonance"
    /\ Len(arg.waves) = 3
    /\ arg.waves[1].frequency = R(1)
    /\ arg.waves[2].frequency = R(2)
    /\ arg.waves[3].frequency = Frac(101, 100)
    /\ arg.frequencyTolerance = Frac(1, 100)
    /\ out = TRUE

----------------------------------------------------------------------------
(* The readers of WaveEngine, called in any order on one engine            *)

evaluateWave(ws, waveIndex, x, t) ==
    IF waveIndex < Len(ws) THEN evaluate(ws[waveIndex + 1], x, t) ELSE R(0)

getEnergy(wave) == RMul(RMul(Half, getAmplitude(wave)), getAmplitude(wave))

\* the loop of calculateTotalEnergy over the waves from index k on
RECURSIVE TotalEnergyFrom(_, _, _)
TotalEnergyFrom(ws, k, totalEnergy) ==
    IF k > Len(ws) THEN totalEnergy
    ELSE TotalEnergyFrom(ws, k + 1, RAdd(totalEnergy, getEnergy(ws[k])))

calculateTotalEnergy(ws) == TotalEnergyFrom(ws, 1, R(0))

EvaluationTimes == {R(0), Frac(1, 4), Half}

MaxReaderWaves == 2

ReaderWaves ==
    {SinusoidalWave(R(1), R(3), R(90)), SawtoothWave(R(-1), R(1), R(90))}

\* an engine to which up to MaxReaderWaves waves have been added
InitReaders ==
    /\ pc = "engine"
    /\ signal = <<>>
    /\ sampleRate = R(0)
    /\ spectrumArg = <<>>
    /\ ret = <<>>
    /\ filt = NoFilter
    /\ analysis = NoSpectrum
    /\ harmonics = <<>>
    /\ arg = NoArg
    /\ waves \in UNION {SeqsOfLen(ReaderWaves, n) : n \in 0 .. MaxReaderWaves}
    /\ out = NoResult
    /\ window = NoWindow

CallEvaluateSuperposition ==
    /\ \E x \in Positions, t \in EvaluationTimes :
          /\ arg' = [x |-> x, t |-> t]
          /\ out' = evaluateSuperposition(waves, x, t)
    /\ pc' = "evaluateSuperposition"
    /\ UNCHANGED <<waves, fourier, window>>

CallEvaluateWave ==
    /\ \E waveIndex \in 0 .. MaxReaderWaves, x \in Positions,
          t \in EvaluationTimes :
          /\ arg' = [waveIndex |-> waveIndex, x |-> x, t |-> t]
          /\ out' = evaluateWave(waves, waveIndex, x, t)
    /\ pc' = "evaluateWave"
    /\ UNCHANGED <<waves, fourier, window>>

CallCalculateTotalEnergy ==
    Reader("calculateTotalEnergy", calculateTotalEnergy(waves))

\* the two series members on an engine that has been used already
CallGenerateTimeSeriesAgain == Series("generateTimeSeries")

CallGenerateDetailedTimeSeriesAgain == Series("generateDetailedTimeSeries")

NextReaders ==
    \/ CallEvaluateSuperposition
    \/ CallEvaluateWave
    \/ CallGenerateTimeSeriesAgain
    \/ CallGenerateDetailedTimeSeriesAgain
    \/ CallCalculateBeatFrequency
    \/ CallDetectPhenomenon
    \/ CallCalculateTotalEnergy
    \/ CallGetMaxAmplitude
    \/ CallGetDominantFrequency
    \/ CallRemoveWave
    \/ CallClearWaves

SpecReaders == InitReaders /\ [][NextReaders]_vars

\* where a call of a reader ends: the nine members, and the exception of
\* the two series members
ReaderEnds ==
    {"evaluateSuperposition", "evaluateWave", "generateTimeSeries",
     "generateDetailedTimeSeries", "calculateBeatFrequency",
     "detectPhenomenon", "calculateTotalEnergy", "getMaxAmplitude",
     "getDominantFrequency", "length_error"}

----------------------------------------------------------------------------
(* findHarmonics on the spectra of getSpectrum *)

\* the non-DC bin of the largest magnitude, the lowest one of them
LoudestBin(bins) ==
    CHOOSE k \in 2 .. Len(bins) :
        /\ \A j \in 2 .. Len(bins) : MagLeq(bins[j].magnitude, bins[k].magnitude)
        /\ \A j \in 2 .. k - 1 : MagLess(bins[j].magnitude, bins[k].magnitude)

\* C29: on a spectrum that getSpectrum produced (bin i at
\* i*frequencyResolution, the last bin at maxFrequency) every non-empty
\* result of findHarmonics starts with the harmonic of order 1, which has the
\* frequency and the amplitude of the non-DC bin of maximum magnitude; the
\* orders are strictly increasing within 1..10 and every amplitude is at or
\* above the threshold.
C29_HarmonicsOfSpectrum ==
    (pc = "findHarmonics" /\ harmonics # <<>>) =>
        LET bins == analysis.bins
            loudest == bins[LoudestBin(bins)]
        IN  /\ \A j \in 1 .. Len(bins) :
                   bins[j].frequency
                       = RMul(R(j - 1), analysis.frequencyResolution)
            /\ bins[Len(bins)].frequency = analysis.maxFrequency
            /\ harmonics[1].order = 1
            /\ harmonics[1].frequency = loudest.frequency
            /\ harmonics[1].amplitude = loudest.magnitude
            /\ \A j \in 1 .. Len(harmonics) :
                   /\ harmonics[j].order \in 1 .. MaxOrder
                   /\ MagLeq(Root(arg.threshold), harmonics[j].amplitude)
            /\ \A j \in 1 .. Len(harmonics) - 1 :
                   harmonics[j].order < harmonics[j + 1].order

\* a fundamental and its second harmonic above the default threshold
C29_Witness ==
    /\ pc = "findHarmonics"
    /\ arg.threshold = DefaultThreshold
    /\ Len(harmonics) = 2
    /\ harmonics[2].order = 2

----------------------------------------------------------------------------
(* MainWindow: the GUI shell. window holds the members and the widgets the *)
(* handlers read and write: isPlaying, currentTime, animationSpeed, the    *)
(* index of the wave type combo, the three spin boxes and their sliders,   *)
(* the text of the phenomenon label and whether that label has ever been   *)
(* given "No waves". A handler runs to its end before the next one starts; *)
(* it is a function from the window and the engine's waves to the same.    *)

TIMER_INTERVAL == 50

MIN_AMPLITUDE == Frac(1, 10)

MAX_AMPLITUDE == R(10)

MIN_FREQUENCY == Frac(1, 10)

MAX_FREQUENCY == R(10)

MIN_PHASE == R(0)

MAX_PHASE == R(360)

\* the items of the wave type combo, in the order of WaveType
WaveTypes == <<"sinusoidal", "cosine", "square", "triangular", "sawtooth">>

\* std::make_unique<SinusoidalWave>(2.0, 1.0, 0.0)
DefaultWave == SinusoidalWave(R(2), R(1), R(0))

SpinMinimum(k) ==
    CASE k = "amplitude" -> MIN_AMPLITUDE
      [] k = "frequency" -> MIN_FREQUENCY
      [] k = "phase" -> MIN_PHASE

SpinMaximum(k) ==
    CASE k = "amplitude" -> MAX_AMPLITUDE
      [] k = "frequency" -> MAX_FREQUENCY
      [] k = "phase" -> MAX_PHASE

\* a slider counts tenths of the amplitude and of the frequency, and whole
\* degrees of the phase
SliderScale(k) == IF k = "phase" THEN 1 ELSE 10

SliderMinimum(k) == Trunc(RMul(SpinMinimum(k), R(SliderScale(k))))

SliderMaximum(k) == Trunc(RMul(SpinMaximum(k), R(SliderScale(k))))

\* m_phenomenonLabel->setText(... detectPhenomenon()); the other labels are
\* texts of the fields of wave 0 and are left out
updateInfoPanel(g) ==
    LET shown == [g EXCEPT !.window.phenomenon = detectPhenomenon(g.waves)]
    IN  [shown EXCEPT !.window.everNoWaves =
                          @ \/ shown.window.phenomenon = "No waves"]

updateWaveParameters(g) ==
    IF Len(g.waves) > 0
    THEN updateInfoPanel(
             [g EXCEPT !.waves[1] =
                 [@ EXCEPT !.amplitude = g.window.spin.amplitude,
                           !.frequency = g.window.spin.frequency,
                           !.phase = g.window.spin.phase]])
    ELSE g

\* QDoubleSpinBox::setValue and QSlider::setValue keep the value within the
\* range of the widget and emit valueChanged only when the value changes.
\* valueChanged of a spin box runs onAmplitudeChanged, onFrequencyChanged or
\* onPhaseChanged, which sets the slider to static_cast<int>(value * 10) (to
\* static_cast<int>(value) for the phase) and calls updateWaveParameters;
\* valueChanged of a slider sets the spin box to value / 10.0 (value).
RECURSIVE SpinSetValue(_, _, _)
RECURSIVE SliderSetValue(_, _, _)
RECURSIVE onSpinChanged(_, _, _)

SpinSetValue(g, k, value) ==
    LET v == IF RLess(value, SpinMinimum(k)) THEN SpinMinimum(k)
             ELSE IF RLess(SpinMaximum(k), value) THEN SpinMaximum(k)
             ELSE value
    IN  IF v = g.window.spin[k] THEN g
        ELSE onSpinChanged([g EXCEPT !.window.spin[k] = v], k, v)

SliderSetValue(g, k, value) ==
    LET v == IF value < SliderMinimum(k) THEN SliderMinimum(k)
             ELSE IF value > SliderMaximum(k) THEN SliderMaximum(k)
             ELSE value
    IN  IF v = g.window.slider[k] THEN g
        ELSE SpinSetValue([g EXCEPT !.window.slider[k] = v], k,
                          RDiv(R(v), R(SliderScale(k))))

onSpinChanged(g, k, value) ==
    updateWaveParameters(
        SliderSetValue(g, k, Trunc(RMul(value, R(SliderScale(k))))))

onAmplitudeChanged(g, value) == onSpinChanged(g, "amplitude", value)

onFrequencyChanged(g, value) == onSpinChanged(g, "frequency", value)

onPhaseChanged(g, value) == onSpinChanged(g, "phase", value)

onWaveTypeChanged(g) == updateWaveParameters(g)

\* QComboBox::setCurrentIndex emits currentIndexChanged when the index changes
ComboSetCurrentIndex(g, index) ==
    IF index = g.window.waveType THEN g
    ELSE onWaveTypeChanged([g EXCEPT !.window.waveType = index])

onPlayPauseClicked(g) == [g EXCEPT !.window.isPlaying = ~@]

onStopClicked(g) ==
    updateInfoPanel([g EXCEPT !.window.isPlaying = FALSE,
                              !.window.currentTime = R(0)])

onResetClicked(g) ==
    LET stopped == onStopClicked(g)
        emptied == [stopped EXCEPT !.waves = clearWaves(@)]
        added == [emptied EXCEPT !.waves = addWave(@, DefaultWave)]
        typed == ComboSetCurrentIndex(added, 0)
        withAmplitude == SpinSetValue(typed, "amplitude", R(2))
        withFrequency == SpinSetValue(withAmplitude, "frequency", R(1))
        withPhase == SpinSetValue(withFrequency, "phase", R(0))
    IN  updateInfoPanel(withPhase)

\* the switch on the combo index; an index past SAWTOOTH makes a sinusoid
onAddWaveClicked(g) ==
    LET index == g.window.waveType
        type == IF index \in 0 .. Len(WaveTypes) - 1 THEN WaveTypes[index + 1]
                ELSE "sinusoidal"
        wave == Wave(type, g.window.spin.amplitude, g.window.spin.frequency,
                     g.window.spin.phase)
    IN  updateInfoPanel([g EXCEPT !.waves = addWave(@, wave)])

\* a Remove that does not look at the number of waves
RemoveWithoutCount(g) ==
    updateInfoPanel([g EXCEPT !.waves = removeWave(@, Len(@) - 1)])

onRemoveWaveClicked(g) ==
    IF Len(g.waves) > 1
    THEN updateInfoPanel([g EXCEPT !.waves = removeWave(@, Len(@) - 1)])
    ELSE g

onClearWavesClicked(g) ==
    LET emptied == [g EXCEPT !.waves = clearWaves(@)]
    IN  updateInfoPanel([emptied EXCEPT !.waves = addWave(@, DefaultWave)])

onAnimationTimer(g) ==
    updateInfoPanel(
        [g EXCEPT !.window.currentTime =
            RAdd(@, RMul(RDiv(R(TIMER_INTERVAL), R(1000)),
                         g.window.animationSpeed))])

\* the constructor: setupUI() builds the widgets with their first values
\* (each connect comes after the first setValue or addItems, so no handler
\* runs), then the default wave is added and the info panel updated
Constructed ==
    updateInfoPanel(
        [window |-> [isPlaying |-> FALSE,
                     currentTime |-> R(0),
                     animationSpeed |-> R(1),
                     waveType |-> 0,
                     spin |-> [amplitude |-> R(2), frequency |-> R(1),
                               phase |-> R(0)],
                     slider |-> [amplitude |-> 20, frequency |-> 10,
                                 phase |-> 0],
                     phenomenon |-> "Single wave",
                     everNoWaves |-> FALSE],
         waves |-> addWave(<<>>, DefaultWave)])

(* What the user does *)

MaxGuiWaves == 2

MaxTicks == 1

\* the values typed into the spin boxes, and the combo items picked
SpinValues ==
    [amplitude |-> {R(2), R(5)}, frequency |-> {R(1), R(3)},
     phase |-> {R(0), R(90)}]

ComboIndices == {0, 1}

InitWindow ==
    /\ pc = "MainWindow"
    /\ signal = <<>>
    /\ sampleRate = R(0)
    /\ spectrumArg = <<>>
    /\ ret = <<>>
    /\ filt = NoFilter
    /\ analysis = NoSpectrum
    /\ harmonics = <<>>
    /\ arg = NoArg
    /\ waves = Constructed.waves
    /\ out = NoResult
    /\ window = Constructed.window

Gui == [window |-> window, waves |-> waves]

\* the window and the engine as a handler leaves them
Handled(g) ==
    /\ window' = g.window
    /\ waves' = g.waves
    /\ UNCHANGED <<pc, arg, out, fourier>>

\* the user types another value into a spin box
CallOnAmplitudeChanged ==
    \E value \in SpinValues.amplitude :
        /\ value # window.spin.amplitude
        /\ Handled(onAmplitudeChanged(
               [Gui EXCEPT !.window.spin.amplitude = value], value))

CallOnFrequencyChanged ==
    \E value \in SpinValues.frequency :
        /\ value # window.spin.frequency
        /\ Handled(onFrequencyChanged(
               [Gui EXCEPT !.window.spin.frequency = value], value))

CallOnPhaseChanged ==
    \E value \in SpinValues.phase :
        /\ value # window.spin.phase
        /\ Handled(onPhaseChanged(
               [Gui EXCEPT !.window.spin.phase = value], value))

\* the user drags a slider
MoveSlider ==
    \E k \in DOMAIN SpinValues : \E value \in SpinValues[k] :
        /\ Trunc(RMul(value, R(SliderScale(k)))) # window.slider[k]
        /\ Handled(SliderSetValue(Gui, k,
                                  Trunc(RMul(value, R(SliderScale(k))))))

\* the user picks another item of the combo
CallOnWaveTypeChanged ==
    \E index \in ComboIndices :
        /\ index # window.waveType
        /\ Handled(onWaveTypeChanged([Gui EXCEPT !.window.waveType = index]))

CallOnPlayPauseClicked == Handled(onPlayPauseClicked(Gui))

CallOnStopClicked == Handled(onStopClicked(Gui))

CallOnResetClicked == Handled(onResetClicked(Gui))

CallOnAddWaveClicked ==
    /\ Len(waves) < MaxGuiWaves
    /\ Handled(onAddWaveClicked(Gui))

CallOnRemoveWaveClicked == Handled(onRemoveWaveClicked(Gui))

CallOnClearWavesClicked == Handled(onClearWavesClicked(Gui))

\* the timer runs between m_animationTimer->start() and stop()
CallOnAnimationTimer ==
    /\ window.isPlaying
    /\ RLess(window.currentTime,
             RMul(R(MaxTicks), RDiv(R(TIMER_INTERVAL), R(1000))))
    /\ Handled(onAnimationTimer(Gui))

NextWindow ==
    \/ CallOnAmplitudeChanged
    \/ CallOnFrequencyChanged
    \/ CallOnPhaseChanged
    \/ MoveSlider
    \/ CallOnWaveTypeChanged
    \/ CallOnPlayPauseClicked
    \/ CallOnStopClicked
    \/ CallOnResetClicked
    \/ CallOnAddWaveClicked
    \/ CallOnRemoveWaveClicked
    \/ CallOnClearWavesClicked
    \/ CallOnAnimationTimer

SpecWindow == InitWindow /\ [][NextWindow]_vars

\* C30: after construction and after any sequence of Add Wave, Remove, Clear
\* All, Reset, Stop, Play/Pause, parameter changes and timer ticks the
\* engine of MainWindow holds at least one wave, and the info panel is never
\* given "No waves"; Remove deletes the last wave only when there is more
\* than one, and Clear All and Reset both leave exactly the default
\* sinusoid (amplitude 2, frequency 1, phase 0).
C30_AtLeastOneWave ==
    /\ [](/\ Len(waves) >= 1
          /\ window.phenomenon # "No waves"
          /\ ~window.everNoWaves)
    /\ [][/\ CallOnRemoveWaveClicked =>
                waves' = IF Len(waves) > 1
                         THEN SubSeq(waves, 1, Len(waves) - 1) ELSE waves
          /\ (CallOnClearWavesClicked \/ CallOnResetClicked) =>
                waves' = <<[type |-> "sinusoidal", amplitude |-> R(2),
                            frequency |-> R(1), phase |-> R(0)]>>]_vars

\* the amplitude box is at 5 and the only wave is the default one: a change
\* of the box is written into wave 0, so Clear All has replaced the waves
C30_Witness ==
    /\ window # NoWindow
    /\ window.spin.amplitude = R(5)
    /\ window.waveType = 1
    /\ waves = <<DefaultWave>>
    /\ window.phenomenon = "Single wave"

----------------------------------------------------------------------------
(* The whole program: any call of any component on any input *)

Init ==
    \/ InitTransform \/ InitInverse \/ InitFilter \/ InitSpectrum
    \/ InitHarmonics \/ InitPower \/ InitTHD
    \/ InitEngine
    \/ InitSeries
    \/ InitClassify
    \/ InitInterference
    \/ InitPhase
    \/ InitResonance
    \/ InitReaders
    \/ InitWindow

Next ==
    \/ NextTransform \/ NextInverse \/ NextFilter \/ NextSpectrum
    \/ NextHarmonics \/ NextPower \/ NextTHD
    \/ NextEngine
    \/ NextSeries
    \/ NextClassify
    \/ NextInterference
    \/ NextPhase
    \/ NextResonance
    \/ NextReaders
    \/ NextWindow

Spec == Init /\ [][Next]_vars

=============================================================================
